---- MODULE Spec2Model ----
(***************************************************************************)
(* A model of babyflow: the work-list Schedule, the Ctx-based Dataflow     *)
(* (src/src/babyflow.rs) that runs the DataOp operators compiled by        *)
(* Program::render (src/src/main.rs), and the closure-based operators of   *)
(* src/src/query.rs over the Dataflow of src/src/babyflow/mod.rs.          *)
(***************************************************************************)
EXTENDS Integers, Sequences, FiniteSets, Bags, TLC

VARIABLES
    schedule,   \* Schedule { order: VecDeque, members: HashSet }
    calls,      \* harness: number of Schedule calls made so far
    lastCall,   \* harness: the last Schedule call, its argument, result and pre-state
    inserted,   \* harness: ids in the order of the inserts that found them not pending
    popped,     \* harness: ids in the order pop returned them
    todo,       \* caller: the clauses still to be passed to Program::clause
    out_name,   \* caller: the relation name that will be passed to Program::render
    clauses,    \* caller: the clauses passed to Program::clause so far
    idents,     \* Program.idents: name -> Ident
    relations,  \* Program.relations: Ident -> the clauses (head, body) of the relation
    rel_ops,    \* render's local `ops`: relation Ident -> id of its Distinct operator
    operators,  \* Dataflow.operators: the DataOp of each operator id
    outputs,    \* Dataflow.outputs: per operator id, its (operator id, port) targets
    inboxes,    \* Dataflow.inboxes: per operator id, its pending (message, port) pairs
    outbox,     \* Dataflow.outbox
    sent_log,   \* history: per operator id, the rows it has sent so far
    waited,     \* history: per operator id, the invocations of other operators
                \* since it became pending (0 when not pending)
    invoked,    \* history: per operator id, how often run invoked it (up to MaxCount)
    pc,         \* "building", "running", "done" (run returned) or "panicked"
    tick,       \* step parity: flipped by every step of the caller and of run
    q_kind,     \* operator harness: the kind of the operator under test
    q_state,    \* operator harness: the tables the operator owns
    recv1,      \* operator harness: its first input queue (its inbox, for a DataOp)
    recv2,      \* operator harness: its second input queue
    a_sent,     \* history: the values upstream operator a has pushed
    b_sent,     \* history: the values upstream operator b has pushed
    emitted,    \* history: the values the operator has pushed
    invocations, \* history: how many times the operator was invoked
    g_flavour,  \* closure-based Dataflow: "babyflow2" or "mod" (babyflow/mod.rs)
    g_ops,      \* per operator id, its closure (kind and captured state)
    g_subs,     \* per operator id, the subscribers of its output: (operator id, input)
    g_queues,   \* per operator id, its two input queues
    g_dirty,    \* per operator id, the dirty bit of its output (babyflow/mod.rs)
    g_running,  \* the operator run is invoking, or None
    g_phase,    \* which loop of its body the running closure is in
    g_count,    \* history: per operator id, how often run invoked it (up to MaxCount)
    g_owed,     \* history: the operators pushed to since they were last popped
    g_rx_fresh, \* history: some closure pulled a value pushed during the same invocation
    g_last,     \* history: the last turn of a body: operator, input, values pushed
    g_hist,     \* history: per lazy operator, the values delivered and received
    g_twin      \* side-by-side run: the Dataflow of babyflow/mod.rs and that of
                \* babyflow2.rs built by the same construction calls

schedVars == <<calls, lastCall, inserted, popped>>

progVars == <<todo, out_name, clauses, idents, relations>>

dfVars == <<rel_ops, operators, outputs, inboxes, outbox, sent_log, waited, invoked>>

queryVars == <<q_kind, q_state, recv1, recv2, a_sent, b_sent, emitted, invocations>>

graphVars == <<g_flavour, g_ops, g_subs, g_queues, g_dirty, g_running, g_phase,
               g_count, g_owed, g_rx_fresh, g_last, g_hist, g_twin>>

vars == <<schedule, schedVars, progVars, dfVars, pc, tick, queryVars, graphVars>>

\* ------------------------------------------------------------------ helpers

Range(s) == {s[i] : i \in DOMAIN s}

NoDup(s) == \A i, j \in DOMAIN s : i # j => s[i] # s[j]

\* Option::None of an id (ids are naturals)
None == 0 - 1

\* ------------------------------------------------------------------ bounds

\* Operator ids offered to the Schedule harness are 0..MaxId.
MaxId == 2

\* The Schedule harness makes at most MaxCalls calls.
MaxCalls == 6

\* A program has at most MaxClauses clauses.
MaxClauses == 3

\* The edge facts of main are added rotated by 0..MaxRotation places.
MaxRotation == 7

\* Each upstream operator of the operator harness pushes at most MaxArrivals values.
MaxArrivals == 2

\* Invocations of one operator are counted up to MaxCount.
MaxCount == 3

\* A source of the closure-based Dataflow pushes at most MaxRows values.
MaxRows == 2

\* ------------------------------------------------------------------ Schedule

NewSchedule == [order |-> <<>>, members |-> {}]

InsertAlways(s, t) ==
    [order |-> Append(s.order, t), members |-> s.members \cup {t}]

InsertFront(s, t) ==
    IF t \notin s.members
    THEN [order |-> <<t>> \o s.order, members |-> s.members \cup {t}]
    ELSE s

\* Schedule::insert
Insert(s, t) ==
    IF t \notin s.members
    THEN [order |-> Append(s.order, t), members |-> s.members \cup {t}]
    ELSE s

PopPeek(s) ==
    IF s.order = <<>>
    THEN [sched |-> s, ret |-> None]
    ELSE [sched |-> [order |-> s.order, members |-> s.members \ {Head(s.order)}],
          ret |-> Head(s.order)]

PopKeepMember(s) ==
    IF s.order = <<>>
    THEN [sched |-> s, ret |-> None]
    ELSE [sched |-> [order |-> Tail(s.order), members |-> s.members],
          ret |-> Head(s.order)]

\* Schedule::pop: the new schedule and the returned id (None when empty)
Pop(s) ==
    IF s.order = <<>>
    THEN [sched |-> s, ret |-> None]
    ELSE [sched |-> [order |-> Tail(s.order),
                     members |-> s.members \ {Head(s.order)}],
          ret |-> Head(s.order)]

\* the harness has made no call yet
NoCall == [op |-> "new", arg |-> None, ret |-> None, before |-> NewSchedule]

\* ------------------------------------------------------------------ Program

\* an empty HashMap / BTreeMap
EmptyMap == <<>>

\* the keys of a BTreeMap with integer keys, in iteration (ascending) order
RECURSIVE SortedKeys(_)
SortedKeys(S) ==
    IF S = {} THEN <<>>
    ELSE LET m == CHOOSE x \in S : \A y \in S : x <= y
         IN <<m>> \o SortedKeys(S \ {m})

\* Expr::Datum(Datum::Int(v)) and Expr::Var(name)
D(v) == [kind |-> "Datum", val |-> v, name |-> ""]
V(n) == [kind |-> "Var", val |-> 0, name |-> n]

\* Program::intern: the table after the call and the identifier returned
\* an intern that gives a name a new identifier at every use
InternAlwaysNew(ids, name) ==
    [idents |-> (name :> Cardinality(DOMAIN ids)) @@ ids,
     id |-> Cardinality(DOMAIN ids)]

Intern(ids, name) ==
    IF name \in DOMAIN ids
    THEN [idents |-> ids, id |-> ids[name]]
    ELSE [idents |-> (name :> Cardinality(DOMAIN ids)) @@ ids,
          id |-> Cardinality(DOMAIN ids)]

\* the loop of Program::intern_predicate over args[i..] (positions are 0-based)
RECURSIVE InternArgs(_, _, _, _, _)
InternArgs(ids, args, i, constants, variables) ==
    IF i > Len(args)
    THEN [idents |-> ids, constants |-> constants, variables |-> variables]
    ELSE IF args[i].kind = "Datum"
         THEN InternArgs(ids, args, i + 1,
                         Append(constants, <<i - 1, args[i].val>>), variables)
         ELSE LET r == Intern(ids, args[i].name)
              IN InternArgs(r.idents, args, i + 1, constants,
                            Append(variables, <<i - 1, r.id>>))

\* Program::intern_predicate
InternPredicate(ids, name, args) ==
    LET n == Intern(ids, name)
        a == InternArgs(n.idents, args, 1, <<>>, <<>>)
    IN [idents |-> a.idents,
        pred |-> [name |-> n.id, constants |-> a.constants,
                  variables |-> a.variables]]

\* the body.iter().map(intern_predicate) of Program::clause
RECURSIVE InternBody(_, _, _, _)
InternBody(ids, body, i, preds) ==
    IF i > Len(body) THEN [idents |-> ids, preds |-> preds]
    ELSE LET r == InternPredicate(ids, body[i].name, body[i].args)
         IN InternBody(r.idents, body, i + 1, Append(preds, r.pred))

\* Program::clause: the idents and relations after the call
Clause(ids, rels, c) ==
    LET h == InternPredicate(ids, c.head.name, c.head.args)
        b == InternBody(h.idents, c.body, 1, <<>>)
        entry == <<h.pred, b.preds>>
    IN [idents |-> b.idents,
        relations |-> IF h.pred.name \in DOMAIN rels
                      THEN [rels EXCEPT ![h.pred.name] = Append(@, entry)]
                      ELSE (h.pred.name :> <<entry>>) @@ rels]

\* ------------------------------------------------------------------ Dataflow (babyflow.rs)

\* the outbox id returned by Dataflow::new is usize::MAX; it is only ever
\* compared with operator ids, and stands here as the largest integer of TLC
UsizeMax == 2147483647

\* Dataflow::new (panic: an index out of range or an unwrap of None aborted)
DataflowNew ==
    [operators |-> <<>>, outputs |-> <<>>, inboxes |-> <<>>,
     schedule |-> NewSchedule, outbox |-> <<>>, panic |-> FALSE]

Panic(df) == [df EXCEPT !.panic = TRUE]

\* an add_op that does not schedule the new operator
AddOpUnscheduled(df, o) ==
    [df EXCEPT !.operators = Append(@, o),
               !.inboxes = Append(@, <<>>),
               !.outputs = Append(@, <<>>)]

\* Dataflow::add_op; the id it returns is Len(df.operators)
AddOp(df, o) ==
    [df EXCEPT !.operators = Append(@, o),
               !.inboxes = Append(@, <<>>),
               !.outputs = Append(@, <<>>),
               !.schedule = Insert(@, Len(df.operators))]

\* an add_edge that numbers the input ports from 1
AddEdgePortsFromOne(df, from, to, in_port) ==
    IF df.panic THEN df
    ELSE IF from >= Len(df.outputs) THEN Panic(df)
    ELSE [df EXCEPT !.outputs[from + 1] = Append(@, <<to, in_port + 1>>)]

\* Dataflow::add_edge
AddEdge(df, from, to, in_port) ==
    IF df.panic THEN df
    ELSE IF from >= Len(df.outputs) THEN Panic(df)
    ELSE [df EXCEPT !.outputs[from + 1] = Append(@, <<to, in_port>>)]

\* ------------------------------------------------------------------ DataOp

SourceOp(rows) == [kind |-> "Source", rows |-> rows]
ProjectOp(cols) == [kind |-> "Project", cols |-> cols]
DistinctOp(h) == [kind |-> "Distinct", set |-> h]
SelectOp(preds) == [kind |-> "Select", preds |-> preds]
JoinOp(lk, l, rk, r) ==
    [kind |-> "Join", left_key |-> lk, left |-> l, right_key |-> rk, right |-> r]
\* an Operator whose run receives at most one message and sends it on
LazyOp == [kind |-> "Lazy"]

\* ColExpr::Datum(d), ColExpr::Var(i); PredExpr::EqConstant(i, d)
ColDatum(d) == [kind |-> "Datum", val |-> d]
ColVar(i) == [kind |-> "Var", val |-> i]
EqConstant(i, d) == [kind |-> "EqConstant", col |-> i, val |-> d]

\* ------------------------------------------------------------------ Program::render

\* render, `for (name, _) in self.relations.iter()`: one Distinct per relation
RECURSIVE DeclareRelations(_, _, _)
DeclareRelations(df, ops, names) ==
    IF names = <<>> THEN [df |-> df, ops |-> ops]
    ELSE DeclareRelations(AddOp(df, DistinctOp({})),
                          (Head(names) :> Len(df.operators)) @@ ops,
                          Tail(names))

\* a render that feeds every Select from the first Distinct created
RECURSIVE SelectInputsFromFirst(_, _, _, _, _)
SelectInputsFromFirst(df, ops, body, i, inputs) ==
    IF df.panic \/ i > Len(body) THEN [df |-> df, inputs |-> inputs]
    ELSE IF body[i].name \notin DOMAIN ops
         THEN [df |-> Panic(df), inputs |-> inputs]
         ELSE LET pred == body[i]
                  pred_exprs == [k \in DOMAIN pred.constants |->
                                    EqConstant(pred.constants[k][1],
                                               pred.constants[k][2])]
                  filtered == Len(df.operators)
              IN SelectInputsFromFirst(AddEdge(AddOp(df, SelectOp(pred_exprs)),
                                               0, filtered, 0),
                                       ops, body, i + 1, Append(inputs, filtered))

\* render, `for pred in body`: one Select per body predicate, fed by the
\* Distinct of the predicate's relation
RECURSIVE SelectInputs(_, _, _, _, _)
SelectInputs(df, ops, body, i, inputs) ==
    IF df.panic \/ i > Len(body) THEN [df |-> df, inputs |-> inputs]
    ELSE IF body[i].name \notin DOMAIN ops
         THEN [df |-> Panic(df), inputs |-> inputs]
         ELSE LET pred == body[i]
                  pred_exprs == [k \in DOMAIN pred.constants |->
                                    EqConstant(pred.constants[k][1],
                                               pred.constants[k][2])]
                  filtered == Len(df.operators)
              IN SelectInputs(AddEdge(AddOp(df, SelectOp(pred_exprs)),
                                      ops[pred.name], filtered, 0),
                              ops, body, i + 1, Append(inputs, filtered))

\* a render that records a new variable at its column in the body predicate
\* instead of its column in the joined row
RECURSIVE JoinKeysNoOffset(_, _, _, _, _, _)
JoinKeysNoOffset(variables, k, len, pv, lk, rk) ==
    IF k > Len(variables)
    THEN [processed_vars |-> pv, left_key |-> lk, right_key |-> rk]
    ELSE LET idx == variables[k][1]
             name == variables[k][2]
         IN IF name \in DOMAIN pv
            THEN JoinKeysNoOffset(variables, k + 1, len, pv,
                                  Append(lk, pv[name]), Append(rk, idx))
            ELSE JoinKeysNoOffset(variables, k + 1, len,
                                  (name :> idx) @@ pv, lk, rk)

\* render, `for (idx, name) in &pred.variables`
RECURSIVE JoinKeys(_, _, _, _, _, _)
JoinKeys(variables, k, len, pv, lk, rk) ==
    IF k > Len(variables)
    THEN [processed_vars |-> pv, left_key |-> lk, right_key |-> rk]
    ELSE LET idx == variables[k][1]
             name == variables[k][2]
         IN IF name \in DOMAIN pv
            THEN JoinKeys(variables, k + 1, len, pv,
                          Append(lk, pv[name]), Append(rk, idx))
            ELSE JoinKeys(variables, k + 1, len,
                          (name :> (len + idx)) @@ pv, lk, rk)

\* render, `for (i, pred) in body.iter().enumerate()`: the chain of Joins
RECURSIVE JoinChain(_, _, _, _, _, _, _)
JoinChain(df, body, inputs, i, join, pv, len) ==
    IF df.panic \/ i > Len(body)
    THEN [df |-> df, join |-> join, processed_vars |-> pv]
    ELSE LET pred == body[i]
             ks == JoinKeys(pred.variables, 1, len, pv, <<>>, <<>>)
             lhs == join
             j == Len(df.operators)
             d1 == AddOp(df, JoinOp(ks.left_key, EmptyMap, ks.right_key, EmptyMap))
             d2 == AddEdge(d1, lhs, j, 0)
             d3 == AddEdge(d2, inputs[i], j, 1)
         IN JoinChain(d3, body, inputs, i + 1, j, ks.processed_vars,
                      len + Len(pred.constants) + Len(pred.variables))

\* render, the projection onto the head: NoCol stands for a position left None
NoCol == [kind |-> "None", val |-> 0]

Projection(head, pv) ==
    LET arity == Len(head.constants) + Len(head.variables)
    IN [p \in 1..arity |->
          IF \E k \in DOMAIN head.constants : head.constants[k][1] = p - 1
          THEN LET k == CHOOSE k \in DOMAIN head.constants :
                            head.constants[k][1] = p - 1
               IN ColDatum(head.constants[k][2])
          ELSE IF \E k \in DOMAIN head.variables : head.variables[k][1] = p - 1
          THEN LET k == CHOOSE k \in DOMAIN head.variables :
                            head.variables[k][1] = p - 1
               IN ColVar(pv[head.variables[k][2]])
          ELSE NoCol]

\* render, the body of `for (head, body) in &rel.clauses`
CompileClause(df, ops, name, head, body) ==
    LET s == SelectInputs(df, ops, body, 1, <<>>)
        src == Len(s.df.operators)
        jc == JoinChain(AddOp(s.df, SourceOp(<< <<>> >>)), body, s.inputs, 1,
                        src, EmptyMap, 0)
        unbound == \E k \in DOMAIN head.variables :
                       head.variables[k][2] \notin DOMAIN jc.processed_vars
        proj == Len(jc.df.operators)
    IN IF s.df.panic THEN s.df
       ELSE IF jc.df.panic THEN jc.df
       ELSE IF unbound THEN Panic(jc.df)
       ELSE IF \E p \in DOMAIN Projection(head, jc.processed_vars) :
                   Projection(head, jc.processed_vars)[p] = NoCol
       THEN Panic(jc.df)
       ELSE AddEdge(AddEdge(AddOp(jc.df,
                                  ProjectOp(Projection(head, jc.processed_vars))),
                            jc.join, proj, 0),
                    proj, ops[name], 0)

RECURSIVE CompileClauses(_, _, _, _, _)
CompileClauses(df, ops, name, cls, i) ==
    IF df.panic \/ i > Len(cls) THEN df
    ELSE CompileClauses(CompileClause(df, ops, name, cls[i][1], cls[i][2]),
                        ops, name, cls, i + 1)

\* render, `for (name, rel) in self.relations.iter()`
RECURSIVE CompileRelations(_, _, _, _)
CompileRelations(df, ops, rels, names) ==
    IF df.panic \/ names = <<>> THEN df
    ELSE CompileRelations(CompileClauses(df, ops, Head(names), rels[Head(names)], 1),
                          ops, rels, Tail(names))

\* Program::render: the Dataflow built (df.panic when render aborted), the
\* local `ops` and the idents after interning out_rel
Render(ids, rels, out_rel) ==
    LET o == Intern(ids, out_rel)
        names == SortedKeys(DOMAIN rels)
        decl == DeclareRelations(DataflowNew, EmptyMap, names)
        comp == CompileRelations(decl.df, decl.ops, rels, names)
    IN [idents |-> o.idents, ops |-> decl.ops,
        df |-> AddEdge(comp, o.id, UsizeMax, 0)]

\* ------------------------------------------------------------------ DataOp::run

MapGet(tab, key) == IF key \in DOMAIN tab THEN tab[key] ELSE <<>>

MapPush(tab, key, row) ==
    IF key \in DOMAIN tab
    THEN [tab EXCEPT ![key] = Append(@, row)]
    ELSE (key :> <<row>>) @@ tab

\* the outcome of handling one received message
Outcome(op, sent) == [op |-> op, sent |-> sent, panic |-> FALSE]
Abort(op) == [op |-> op, sent |-> <<>>, panic |-> TRUE]

\* DataOp::Project, one received row v (v[*i] panics out of range)
StepProject(op, v) ==
    IF \E k \in DOMAIN op.cols : op.cols[k].kind = "Var" /\ op.cols[k].val >= Len(v)
    THEN Abort(op)
    ELSE Outcome(op, << [k \in DOMAIN op.cols |->
                           IF op.cols[k].kind = "Datum" THEN op.cols[k].val
                           ELSE v[op.cols[k].val + 1]] >>)

\* preds.iter().all(|p| p.eval(&v)) with PredExpr::eval: "true", "false", or
\* "panic" when a column is out of range before a predicate fails
RECURSIVE EvalAll(_, _, _)
EvalAll(preds, k, v) ==
    IF k > Len(preds) THEN "true"
    ELSE IF preds[k].col >= Len(v) THEN "panic"
    ELSE IF v[preds[k].col + 1] = preds[k].val THEN EvalAll(preds, k + 1, v)
    ELSE "false"

\* DataOp::Select, one received row v
StepSelect(op, v) ==
    LET e == EvalAll(op.preds, 1, v)
    IN IF e = "panic" THEN Abort(op)
       ELSE IF e = "true" THEN Outcome(op, <<v>>)
       ELSE Outcome(op, <<>>)

StepDistinctNoCheck(op, row) ==
    Outcome(DistinctOp(op.set \cup {row}), <<row>>)

\* a Distinct that remembers only the last new row
StepDistinctForgetful(op, row) ==
    IF row \notin op.set
    THEN Outcome(DistinctOp({row}), <<row>>)
    ELSE Outcome(op, <<>>)

\* DataOp::Distinct, one received row
StepDistinct(op, row) ==
    IF row \notin op.set
    THEN Outcome(DistinctOp(op.set \cup {row}), <<row>>)
    ELSE Outcome(op, <<>>)

\* left_key.iter().map(|i| row[*i]) of DataOp::Join
JoinKey(key, row) == [k \in DOMAIN key |-> row[key[k] + 1]]

KeyInRange(key, row) == \A k \in DOMAIN key : key[k] < Len(row)

\* DataOp::Join, one received row on `port`
StepJoin(op, row, port) ==
    IF port = 0
    THEN IF ~KeyInRange(op.left_key, row) THEN Abort(op)
         ELSE LET key == JoinKey(op.left_key, row)
                  matches == MapGet(op.right, key)
              IN Outcome([op EXCEPT !.left = MapPush(@, key, row)],
                         [k \in DOMAIN matches |-> row \o matches[k]])
    ELSE IF port = 1
    THEN IF ~KeyInRange(op.right_key, row) THEN Abort(op)
         ELSE LET key == JoinKey(op.right_key, row)
                  matches == MapGet(op.left, key)
              IN Outcome([op EXCEPT !.right = MapPush(@, key, row)],
                         [k \in DOMAIN matches |-> matches[k] \o row])
    ELSE Abort(op)

\* one turn of the `while let Some(..) = c.recv()` loop of DataOp::run
Step(op, msg) ==
    CASE op.kind = "Project" -> StepProject(op, msg[1])
      [] op.kind = "Select" -> StepSelect(op, msg[1])
      [] op.kind = "Distinct" -> StepDistinct(op, msg[1])
      [] op.kind = "Join" -> StepJoin(op, msg[1], msg[2])

\* Ctx::recv: to_recv.pop_back()
Recv(to_recv) ==
    [msg |-> to_recv[Len(to_recv)],
     rest |-> SubSeq(to_recv, 1, Len(to_recv) - 1)]

\* the `while let Some(..) = c.recv()` loop of DataOp::run
RECURSIVE Drain(_, _, _)
Drain(op, to_recv, sent) ==
    IF to_recv = <<>>
    THEN [op |-> op, sent |-> sent, to_recv |-> to_recv, panic |-> FALSE]
    ELSE LET m == Recv(to_recv)
             r == Step(op, m.msg)
         IN IF r.panic
            THEN [op |-> r.op, sent |-> sent, to_recv |-> m.rest, panic |-> TRUE]
            ELSE Drain(r.op, m.rest, sent \o r.sent)

\* DataOp::run on a Ctx { to_recv, sent: [] }: the operator and the Ctx after it
RunOperator(op, to_recv) ==
    IF op.kind = "Source"
    THEN [op |-> SourceOp(<<>>), sent |-> op.rows, to_recv |-> to_recv,
          panic |-> FALSE]
    ELSE IF op.kind = "Lazy"
    THEN IF to_recv = <<>>
         THEN [op |-> op, sent |-> <<>>, to_recv |-> to_recv, panic |-> FALSE]
         ELSE [op |-> op, sent |-> <<Recv(to_recv).msg[1]>>,
               to_recv |-> Recv(to_recv).rest, panic |-> FALSE]
    ELSE Drain(op, to_recv, <<>>)

\* ------------------------------------------------------------------ Dataflow::run

\* a send that delivers the message without scheduling the receiver
SendUnscheduled(df, m, recv, port) ==
    IF recv = UsizeMax
    THEN [df EXCEPT !.outbox = Append(@, m)]
    ELSE IF recv >= Len(df.inboxes) THEN Panic(df)
    ELSE [df EXCEPT !.inboxes[recv + 1] = Append(@, <<m, port>>)]

\* Dataflow::send
Send(df, m, recv, port) ==
    IF recv = UsizeMax
    THEN [df EXCEPT !.outbox = Append(@, m)]
    ELSE IF recv >= Len(df.inboxes) THEN Panic(df)
    ELSE [df EXCEPT !.inboxes[recv + 1] = Append(@, <<m, port>>),
                    !.schedule = Insert(@, recv)]

\* Dataflow::send_from: one copy of m to each target, in the order of the edges
RECURSIVE SendTargets(_, _, _, _)
SendTargets(df, m, targets, i) ==
    IF df.panic \/ i > Len(targets) THEN df
    ELSE SendTargets(Send(df, m, targets[i][1], targets[i][2]), m, targets, i + 1)

SendFrom(df, idx, m) == SendTargets(df, m, df.outputs[idx + 1], 1)

\* Dataflow::run, `for msg in ctx.sent.drain(..)`
RECURSIVE SendAll(_, _, _, _)
SendAll(df, idx, sent, i) ==
    IF df.panic \/ i > Len(sent) THEN df
    ELSE SendAll(SendFrom(df, idx, sent[i]), idx, sent, i + 1)

\* Dataflow::run, one turn of the loop for the popped operator `op`
RunIteration(df, op) ==
    LET r == RunOperator(df.operators[op + 1], df.inboxes[op + 1])
        d == [df EXCEPT !.operators[op + 1] = r.op,
                        !.inboxes[op + 1] = r.to_recv]
    IN IF r.panic THEN Panic(d) ELSE SendAll(d, op, r.sent, 1)

\* ------------------------------------------------------------------ the caller's programs

Pred(n, args) == [name |-> n, args |-> args]
Fact(n, vals) == [head |-> Pred(n, [i \in DOMAIN vals |-> D(vals[i])]), body |-> <<>>]
Rule(h, b) == [head |-> h, body |-> b]

\* the clauses the caller draws a program from: e/2, r/1, s/1
ClausePool ==
    << Fact("e", <<1, 2>>),
       Fact("e", <<2, 1>>),
       Fact("r", <<1>>),
       Rule(Pred("r", <<V("A")>>),
            <<Pred("r", <<V("B")>>), Pred("e", <<V("B"), V("A")>>)>>),
       Rule(Pred("s", <<V("A")>>), <<Pred("r", <<V("A")>>)>>),
       Rule(Pred("r", <<V("A")>>),
            <<Pred("s", <<V("B")>>), Pred("e", <<V("B"), V("A")>>)>>),
       Rule(Pred("s", <<V("X")>>), <<Pred("e", <<V("X"), D(2)>>)>>),
       Rule(Pred("e", <<D(2), V("A")>>), <<Pred("r", <<V("A")>>)>>),
       Rule(Pred("s", <<V("B")>>),
            <<Pred("r", <<V("A")>>), Pred("e", <<V("A"), V("B")>>),
              Pred("e", <<V("A"), V("B")>>)>>) >>

HeadNames(prog) == {prog[i].head.name : i \in DOMAIN prog}

\* every relation a body refers to has a clause
WellFormed(prog) ==
    \A i \in DOMAIN prog : \A j \in DOMAIN prog[i].body :
        prog[i].body[j].name \in HeadNames(prog)

\* the programs: up to MaxClauses clauses of the pool, in any order
Programs ==
    {[i \in DOMAIN s |-> ClausePool[s[i]]] :
        s \in {t \in UNION {[1..n -> DOMAIN ClausePool] : n \in 1..MaxClauses} :
                  WellFormed([i \in DOMAIN t |-> ClausePool[t[i]]])}}

\* ------------------------------------------------------------------ actions

Dataflow ==
    [operators |-> operators, outputs |-> outputs, inboxes |-> inboxes,
     schedule |-> schedule, outbox |-> outbox, panic |-> FALSE]

NoDataflow ==
    /\ rel_ops = EmptyMap
    /\ operators = <<>>
    /\ outputs = <<>>
    /\ inboxes = <<>>
    /\ outbox = <<>>
    /\ sent_log = <<>>
    /\ waited = <<>>
    /\ invoked = <<>>

NoProgram ==
    /\ todo = <<>>
    /\ out_name = ""
    /\ clauses = <<>>
    /\ idents = EmptyMap
    /\ relations = EmptyMap

NoQuery ==
    /\ q_kind = ""
    /\ q_state = <<>>
    /\ recv1 = <<>>
    /\ recv2 = <<>>
    /\ a_sent = <<>>
    /\ b_sent = <<>>
    /\ emitted = <<>>
    /\ invocations = 0

NoGraph ==
    /\ g_flavour = ""
    /\ g_ops = <<>>
    /\ g_subs = <<>>
    /\ g_queues = <<>>
    /\ g_dirty = <<>>
    /\ g_running = None
    /\ g_phase = 0
    /\ g_count = <<>>
    /\ g_owed = {}
    /\ g_rx_fresh = FALSE
    /\ g_last = <<>>
    /\ g_hist = <<>>
    /\ g_twin = <<>>

NoHarness ==
    /\ calls = 0
    /\ lastCall = NoCall
    /\ inserted = <<>>
    /\ popped = <<>>

Min(a, b) == IF a <= b THEN a ELSE b

\* the invocations each pending operator has waited through, after one more
\* invocation that took the schedule from `before` (the popped operator
\* removed) to `after`; the count stops at the number of operators
Waited(w, before, after) ==
    [i \in DOMAIN w |->
        IF (i - 1) \notin after.members THEN 0
        ELSE IF (i - 1) \in before.members THEN Min(w[i] + 1, Len(w))
        ELSE 0]

\* Program::new() and the caller's choice of a program and an output relation
Init ==
    /\ todo \in Programs
    /\ out_name \in HeadNames(todo)
    /\ clauses = <<>>
    /\ idents = EmptyMap
    /\ relations = EmptyMap
    /\ schedule = NewSchedule
    /\ NoDataflow
    /\ NoHarness
    /\ NoQuery
    /\ NoGraph
    /\ pc = "building"
    /\ tick = FALSE

\* the caller passes its next clause to Program::clause
AddClause ==
    /\ pc = "building"
    /\ todo # <<>>
    /\ LET r == Clause(idents, relations, Head(todo))
       IN /\ idents' = r.idents
          /\ relations' = r.relations
    /\ clauses' = Append(clauses, Head(todo))
    /\ todo' = Tail(todo)
    /\ tick' = ~tick
    /\ UNCHANGED <<out_name, schedule, schedVars, dfVars, pc, queryVars, graphVars>>

\* the caller calls Program::render(out_name)
CallRender ==
    /\ pc = "building"
    /\ todo = <<>>
    /\ LET r == Render(idents, relations, out_name)
       IN /\ idents' = r.idents
          /\ rel_ops' = r.ops
          /\ operators' = r.df.operators
          /\ outputs' = r.df.outputs
          /\ inboxes' = r.df.inboxes
          /\ schedule' = r.df.schedule
          /\ outbox' = r.df.outbox
          /\ sent_log' = [i \in DOMAIN r.df.operators |-> <<>>]
          /\ waited' = [i \in DOMAIN r.df.operators |-> 0]
          /\ invoked' = [i \in DOMAIN r.df.operators |-> 0]
          /\ pc' = IF r.df.panic THEN "panicked" ELSE "running"
    /\ tick' = ~tick
    /\ UNCHANGED <<todo, out_name, clauses, relations, schedVars, queryVars, graphVars>>

\* Dataflow::run, one turn of `while let Some(op) = self.schedule.pop()`
RunStep ==
    /\ pc = "running"
    /\ Pop(schedule).ret # None
    /\ LET op == Pop(schedule).ret
           r == RunOperator(operators[op + 1], inboxes[op + 1])
           d == RunIteration([Dataflow EXCEPT !.schedule = Pop(schedule).sched], op)
       IN /\ operators' = d.operators
          /\ outputs' = d.outputs
          /\ inboxes' = d.inboxes
          /\ schedule' = d.schedule
          /\ outbox' = d.outbox
          /\ sent_log' = [sent_log EXCEPT ![op + 1] = @ \o r.sent]
          /\ waited' = Waited(waited, Pop(schedule).sched, d.schedule)
          /\ invoked' = [invoked EXCEPT ![op + 1] = Min(@ + 1, MaxCount)]
          /\ pc' = IF d.panic THEN "panicked" ELSE "running"
    /\ tick' = ~tick
    /\ UNCHANGED <<progVars, rel_ops, schedVars, queryVars, graphVars>>

\* Dataflow::run: pop found the schedule empty, run returns the outbox
RunReturn ==
    /\ pc = "running"
    /\ Pop(schedule).ret = None
    /\ pc' = "done"
    /\ tick' = ~tick
    /\ UNCHANGED <<schedule, progVars, dfVars, schedVars, queryVars, graphVars>>

Next ==
    \/ AddClause
    \/ CallRender
    \/ RunStep
    \/ RunReturn

Spec == Init /\ [][Next]_vars

\* some step of the caller or of the run loop: every action of Next flips tick,
\* and one of them is enabled whenever pc is "building" or "running"
Advance ==
    /\ pc \in {"building", "running"}
    /\ tick' = ~tick

\* the caller and the run loop keep executing (the program is single-threaded
\* and nothing blocks): weak fairness of Next, stated on the step parity
SpecLive == Init /\ [][Next]_vars /\ WF_tick(Advance)

\* ------------------------------------------------------------------ programs with structural mistakes

\* clauses a careless caller may add: besides well-formed ones, a body that
\* uses a relation without clauses (q), bodies that use r/1 with two arguments
\* and e/2 with one, a variable repeated in a body predicate, and a head
\* variable that the body does not bind
AnyPool ==
    << Fact("e", <<1, 2>>),
       Fact("r", <<1>>),
       Rule(Pred("r", <<V("A")>>),
            <<Pred("r", <<V("B")>>), Pred("e", <<V("B"), V("A")>>)>>),
       Rule(Pred("s", <<V("A")>>), <<Pred("q", <<V("A")>>)>>),
       Rule(Pred("s", <<V("X")>>), <<Pred("r", <<V("Y"), V("X")>>)>>),
       Rule(Pred("s", <<V("X")>>), <<Pred("e", <<V("X")>>)>>),
       Rule(Pred("s", <<V("A")>>), <<Pred("e", <<V("A"), V("A")>>)>>),
       Rule(Pred("s", <<V("Z")>>), <<Pred("r", <<V("A")>>)>>) >>

AnyPrograms ==
    {[i \in DOMAIN t |-> AnyPool[t[i]]] :
        t \in UNION {[1..n -> DOMAIN AnyPool] : n \in 1..MaxClauses}}

\* Program::new(); the caller will add any program and render any name: a
\* relation with clauses, q (no clause), or A (a variable name at most)
AnyInit ==
    /\ todo \in AnyPrograms
    /\ out_name \in {"e", "r", "s", "q", "A"}
    /\ clauses = <<>>
    /\ idents = EmptyMap
    /\ relations = EmptyMap
    /\ schedule = NewSchedule
    /\ NoDataflow
    /\ NoHarness
    /\ NoQuery
    /\ NoGraph
    /\ pc = "building"
    /\ tick = FALSE

SpecAny == AnyInit /\ [][Next]_vars

\* ------------------------------------------------------------------ the program of main

EdgePairs ==
    << <<1, 2>>, <<2, 3>>, <<1, 3>>, <<1, 4>>, <<1, 2>>, <<2, 4>>, <<4, 5>>, <<6, 7>> >>

EdgeFacts == [i \in DOMAIN EdgePairs |-> Fact("edge", EdgePairs[i])]

ReachSeed == Fact("reachable", <<1>>)

ReachRule ==
    Rule(Pred("reachable", <<V("A")>>),
         <<Pred("reachable", <<V("B")>>), Pred("edge", <<V("B"), V("A")>>)>>)

InsertAt(s, pos, x) == SubSeq(s, 1, pos) \o <<x>> \o SubSeq(s, pos + 1, Len(s))

Rotate(s, k) == [i \in DOMAIN s |-> s[((i - 1 + k) % Len(s)) + 1]]

Reverse(s) == [i \in DOMAIN s |-> s[Len(s) + 1 - i]]

\* the orders in which the caller adds the ten clauses of main: the edge facts
\* rotated by up to MaxRotation and possibly reversed, the seed fact and the
\* rule at any two places among them
ReachPrograms ==
    {InsertAt(InsertAt(IF rev THEN Reverse(Rotate(EdgeFacts, rot))
                       ELSE Rotate(EdgeFacts, rot), i, ReachSeed), j, ReachRule) :
        rot \in 0..MaxRotation, rev \in BOOLEAN,
        i \in 0..Len(EdgeFacts), j \in 0..(Len(EdgeFacts) + 1)}

ReachInit ==
    /\ todo \in ReachPrograms
    /\ out_name = "reachable"
    /\ clauses = <<>>
    /\ idents = EmptyMap
    /\ relations = EmptyMap
    /\ schedule = NewSchedule
    /\ NoDataflow
    /\ NoHarness
    /\ NoQuery
    /\ NoGraph
    /\ pc = "building"
    /\ tick = FALSE

SpecReach == ReachInit /\ [][Next]_vars

\* ------------------------------------------------------------------ least model

\* the constants and the variable names occurring in a clause
ArgsOf(c) ==
    {c.head.args[i] : i \in DOMAIN c.head.args}
        \cup UNION {{c.body[j].args[i] : i \in DOMAIN c.body[j].args} :
                      j \in DOMAIN c.body}

ConstsOf(prog) ==
    UNION {{a.val : a \in {b \in ArgsOf(prog[i]) : b.kind = "Datum"}} :
              i \in DOMAIN prog}

VarsOf(c) == {a.name : a \in {b \in ArgsOf(c) : b.kind = "Var"}}

\* a predicate under a valuation of the clause's variables
Inst(pred, val) ==
    [i \in DOMAIN pred.args |->
        IF pred.args[i].kind = "Datum" THEN pred.args[i].val
        ELSE val[pred.args[i].name]]

\* the immediate consequences of the facts F (pairs <<relation name, row>>)
Consequences(prog, F) ==
    F \cup UNION {
        {<<prog[i].head.name, Inst(prog[i].head, val)>> :
            val \in {w \in [VarsOf(prog[i]) -> ConstsOf(prog)] :
                       \A j \in DOMAIN prog[i].body :
                           <<prog[i].body[j].name, Inst(prog[i].body[j], w)>> \in F}} :
        i \in DOMAIN prog}

RECURSIVE LeastFixpoint(_, _)
LeastFixpoint(prog, F) ==
    IF Consequences(prog, F) = F THEN F
    ELSE LeastFixpoint(prog, Consequences(prog, F))

\* the extension of relation `name` in the least model of prog
Extension(prog, name) ==
    {f[2] : f \in {g \in LeastFixpoint(prog, {}) : g[1] = name}}

\* the id of the Distinct operator render created for relation `name`
DistinctOf(name) == rel_ops[idents[name]]

Count(s, x) == Cardinality({i \in DOMAIN s : s[i] = x})

\* ------------------------------------------------------------------ query.rs closures

\* a pull that empties the queue it takes the head of
PullDiscards(inputs) == [val |-> Head(inputs), rest |-> <<>>]

\* RecvCtx::pull: inputs.pop_front()
Pull(inputs) == [val |-> Head(inputs), rest |-> Tail(inputs)]

\* a distinct that never inserts into its table
DistinctNoInsert(tab, recv, pushed) ==
    [tab |-> tab,
     pushed |-> pushed \o SelectSeq(recv, LAMBDA v : v \notin tab)]

\* the closure of Operator::distinct on its input queue: the table and the
\* values pushed, in order
RECURSIVE DistinctClosure(_, _, _)
DistinctClosure(tab, recv, pushed) ==
    IF recv = <<>> THEN [tab |-> tab, pushed |-> pushed]
    ELSE LET p == Pull(recv)
         IN IF p.val \notin tab
            THEN DistinctClosure(tab \cup {p.val}, p.rest, Append(pushed, p.val))
            ELSE DistinctClosure(tab, p.rest, pushed)

\* a union that drops from the right queue the values the left queue holds
UnionSetLike(left, right) == left \o SelectSeq(right, LAMBDA v : v \notin Range(left))

\* the closure of Operator::union: every value of recv1, then every value of recv2
UnionClosure(left, right) == left \o right

\* a join side that probes its own table instead of the other side's
RECURSIVE JoinDrainOwnSide(_, _, _, _, _)
JoinDrainOwnSide(own, other, recv, pushed, leftSide) ==
    IF recv = <<>> THEN [own |-> own, pushed |-> pushed]
    ELSE LET p == Pull(recv)
             k == p.val[1]
             v == p.val[2]
             matches == MapGet(own, k)
         IN JoinDrainOwnSide(MapPush(own, k, v), other, p.rest,
                             pushed \o [i \in DOMAIN matches |->
                                           IF leftSide THEN <<k, v, matches[i]>>
                                           ELSE <<k, matches[i], v>>],
                             leftSide)

\* a join that does not pair a value with an equal value of the other side
RECURSIVE JoinDrainSkipsEqual(_, _, _, _, _)
JoinDrainSkipsEqual(own, other, recv, pushed, leftSide) ==
    IF recv = <<>> THEN [own |-> own, pushed |-> pushed]
    ELSE LET p == Pull(recv)
             k == p.val[1]
             v == p.val[2]
             matches == SelectSeq(MapGet(other, k), LAMBDA m : m # v)
         IN JoinDrainSkipsEqual(MapPush(own, k, v), other, p.rest,
                                pushed \o [i \in DOMAIN matches |->
                                              IF leftSide THEN <<k, v, matches[i]>>
                                              ELSE <<k, matches[i], v>>],
                                leftSide)

\* one side of the closure of Operator::join: `own` is the table of the side
\* being drained, `other` the table probed; triple(k, v, m) orders the values
RECURSIVE JoinDrain(_, _, _, _, _)
JoinDrain(own, other, recv, pushed, leftSide) ==
    IF recv = <<>> THEN [own |-> own, pushed |-> pushed]
    ELSE LET p == Pull(recv)
             k == p.val[1]
             v == p.val[2]
             matches == MapGet(other, k)
         IN JoinDrain(MapPush(own, k, v), other, p.rest,
                      pushed \o [i \in DOMAIN matches |->
                                    IF leftSide THEN <<k, v, matches[i]>>
                                    ELSE <<k, matches[i], v>>],
                      leftSide)

\* a join whose right side fills its table without probing the left one
JoinLeftOnly(left_tab, right_tab, left, right) ==
    LET l == JoinDrain(left_tab, right_tab, left, <<>>, TRUE)
    IN [left_tab |-> l.own,
        right_tab |-> JoinDrain(right_tab, l.own, right, <<>>, FALSE).own,
        pushed |-> l.pushed]

\* the closure of Operator::join: the left queue is drained, then the right one
JoinClosure(left_tab, right_tab, left, right) ==
    LET l == JoinDrain(left_tab, right_tab, left, <<>>, TRUE)
        r == JoinDrain(right_tab, l.own, right, <<>>, FALSE)
    IN [left_tab |-> l.own, right_tab |-> r.own, pushed |-> l.pushed \o r.pushed]

\* ------------------------------------------------------------------ one operator fed by two upstream operators

\* the values the upstream operators send: (k, v) pairs
Values == {<<1, 1>>, <<1, 2>>, <<2, 1>>}

\* the operator under test is the third one created (a is 0, b is 1); add_op
\* and add_op_2 leave a new operator scheduled
OpId == 2

Kinds == {"distinct", "union", "join", "DataOp::Distinct", "DataOp::Join"}

IsDataOp == q_kind \in {"DataOp::Distinct", "DataOp::Join"}

\* the operator as constructed: Operator::distinct, union, join of query.rs,
\* or a DataOp::Distinct or DataOp::Join keyed on column 0
NewOperator(kind) ==
    CASE kind = "distinct" -> [tab |-> {}]
      [] kind = "union" -> [tab |-> {}]
      [] kind = "join" -> [left_tab |-> EmptyMap, right_tab |-> EmptyMap]
      [] kind = "DataOp::Distinct" -> DistinctOp({})
      [] kind = "DataOp::Join" -> JoinOp(<<0>>, EmptyMap, <<0>>, EmptyMap)

QueryInit ==
    /\ q_kind \in Kinds
    /\ q_state = NewOperator(q_kind)
    /\ recv1 = <<>>
    /\ recv2 = <<>>
    /\ a_sent = <<>>
    /\ b_sent = <<>>
    /\ emitted = <<>>
    /\ invocations = 0
    /\ schedule = Insert(NewSchedule, OpId)
    /\ NoHarness
    /\ NoProgram
    /\ NoDataflow
    /\ NoGraph
    /\ pc = "query"
    /\ tick = FALSE

\* upstream operator a pushes v on its output, which is wired to the first
\* input of the operator; run then schedules the operator
PushA(v) ==
    /\ pc = "query"
    /\ Len(a_sent) < MaxArrivals
    /\ recv1' = Append(recv1, IF IsDataOp THEN <<v, 0>> ELSE v)
    /\ schedule' = Insert(schedule, OpId)
    /\ a_sent' = Append(a_sent, v)
    /\ UNCHANGED <<q_kind, q_state, recv2, b_sent, emitted, invocations>>
    /\ UNCHANGED <<schedVars, progVars, dfVars, pc, tick, graphVars>>

\* upstream operator b pushes v on its output, which is wired to the second
\* input of a union or join (port 1 of a DataOp::Join) and to the only input
\* of a distinct
PushB(v) ==
    /\ pc = "query"
    /\ Len(b_sent) < MaxArrivals
    /\ IF q_kind \in {"union", "join"}
       THEN recv2' = Append(recv2, v) /\ UNCHANGED recv1
       ELSE /\ recv1' = Append(recv1, CASE q_kind = "DataOp::Join" -> <<v, 1>>
                                        [] q_kind = "DataOp::Distinct" -> <<v, 0>>
                                        [] OTHER -> v)
            /\ UNCHANGED recv2
    /\ schedule' = Insert(schedule, OpId)
    /\ b_sent' = Append(b_sent, v)
    /\ UNCHANGED <<q_kind, q_state, a_sent, emitted, invocations>>
    /\ UNCHANGED <<schedVars, progVars, dfVars, pc, tick, graphVars>>

\* what one invocation of the operator does to its state and queues, and the
\* values it sends
Invocation ==
    CASE q_kind = "distinct" ->
            LET r == DistinctClosure(q_state.tab, recv1, <<>>)
            IN [state |-> [tab |-> r.tab], recv1 |-> <<>>, recv2 |-> recv2,
                pushed |-> r.pushed]
      [] q_kind = "union" ->
            [state |-> q_state, recv1 |-> <<>>, recv2 |-> <<>>,
             pushed |-> UnionClosure(recv1, recv2)]
      [] q_kind = "join" ->
            LET r == JoinClosure(q_state.left_tab, q_state.right_tab, recv1, recv2)
            IN [state |-> [left_tab |-> r.left_tab, right_tab |-> r.right_tab],
                recv1 |-> <<>>, recv2 |-> <<>>, pushed |-> r.pushed]
      [] IsDataOp ->
            LET r == RunOperator(q_state, recv1)
            IN [state |-> r.op, recv1 |-> r.to_recv, recv2 |-> recv2,
                pushed |-> r.sent]

\* run pops the operator and invokes it
Invoke ==
    /\ pc = "query"
    /\ Pop(schedule).ret = OpId
    /\ schedule' = Pop(schedule).sched
    /\ q_state' = Invocation.state
    /\ recv1' = Invocation.recv1
    /\ recv2' = Invocation.recv2
    /\ emitted' = emitted \o Invocation.pushed
    /\ invocations' = invocations + 1
    /\ UNCHANGED <<q_kind, a_sent, b_sent>>
    /\ UNCHANGED <<schedVars, progVars, dfVars, pc, tick, graphVars>>

QueryNext ==
    \/ \E v \in Values : PushA(v)
    \/ \E v \in Values : PushB(v)
    \/ Invoke

SpecQuery == QueryInit /\ [][QueryNext]_vars

\* ------------------------------------------------------------------ the closure-based Dataflow (babyflow2.rs, babyflow/mod.rs)

\* Dataflow::new
GNew == [ops |-> <<>>, subs |-> <<>>, schedule |-> NewSchedule]

\* an add_op that does not schedule the new operator
GAddOpUnscheduled(g, body) ==
    [g EXCEPT !.ops = Append(@, body), !.subs = Append(@, <<>>)]

\* Dataflow::add_op, add_op_2, add_source, add_sink: the operator gets the next
\* id, empty input queues, an output without subscribers, and is scheduled
GAddOp(g, body) ==
    [g EXCEPT !.ops = Append(@, body),
              !.subs = Append(@, <<>>),
              !.schedule = Insert(@, Len(g.ops))]

\* Dataflow::add_edge: the output of `from` gets a writer to input `port`
\* (1 or 2) of operator `to` (and, in babyflow/mod.rs, `to` as an adjacency)
GAddEdge(g, from, to, port) ==
    [g EXCEPT !.subs[from + 1] = Append(@, <<to, port>>)]

\* operator bodies: the closures of query.rs and of the tests
GSource(rows) == [kind |-> "source", rows |-> rows]
GSink == [kind |-> "sink", got |-> <<>>]
GMerge == [kind |-> "merge"]
GMap == [kind |-> "map"]
GFilter == [kind |-> "filter"]
GDistinct == [kind |-> "distinct", tab |-> {}]
GUnion == [kind |-> "union"]
GJoin == [kind |-> "join", left_tab |-> EmptyMap, right_tab |-> EmptyMap]
\* a body that pulls at most one value per invocation and passes it on
GLazy == [kind |-> "lazy"]

Binary(o) == o.kind \in {"union", "join"}

\* the function of the map operator and the predicate of the filter operator
MapFn(v) == IF Len(v) = 2 THEN <<v[2], v[1]>> ELSE v
FilterFn(v) == v[1] = 1

\* one turn of a body's `while let Some(v) = recv.pull()` loop on input `port`:
\* the operator afterwards and the values it pushes
BodyTurn(o, v, port) ==
    CASE o.kind \in {"merge", "union", "lazy"} -> [op |-> o, pushed |-> <<v>>]
      [] o.kind = "map" -> [op |-> o, pushed |-> <<MapFn(v)>>]
      [] o.kind = "filter" -> [op |-> o, pushed |-> IF FilterFn(v) THEN <<v>> ELSE <<>>]
      [] o.kind = "sink" -> [op |-> [o EXCEPT !.got = Append(@, v)], pushed |-> <<>>]
      [] o.kind = "distinct" ->
            LET r == DistinctClosure(o.tab, <<v>>, <<>>)
            IN [op |-> [o EXCEPT !.tab = r.tab], pushed |-> r.pushed]
      [] o.kind = "join" ->
            IF port = 1
            THEN LET r == JoinDrain(o.left_tab, o.right_tab, <<v>>, <<>>, TRUE)
                 IN [op |-> [o EXCEPT !.left_tab = r.own], pushed |-> r.pushed]
            ELSE LET r == JoinDrain(o.right_tab, o.left_tab, <<v>>, <<>>, FALSE)
                 IN [op |-> [o EXCEPT !.right_tab = r.own], pushed |-> r.pushed]

\* a queued value; fresh: pushed during the invocation in progress; seen: left
\* in the queue by an invocation of the receiving operator
Entry(v) == [val |-> v, fresh |-> TRUE, seen |-> FALSE]

\* a writer that always writes to the first input of the subscriber
WriterPushFirstInput(queues, sub, v) ==
    [queues EXCEPT ![sub[1] + 1][1] = Append(@, Entry(v))]

\* Writer::push: push_back on the subscriber's queue
WriterPush(queues, sub, v) ==
    [queues EXCEPT ![sub[1] + 1][sub[2]] = Append(@, Entry(v))]

\* a push that reaches each subscribed operator once, however many edges lead to it
RECURSIVE PushOncePerOperator(_, _, _, _, _, _)
PushOncePerOperator(flavour, st, id, subs, v, i) ==
    IF i > Len(subs) THEN st
    ELSE IF \E j \in 1..(i - 1) : subs[j][1] = subs[i][1]
    THEN PushOncePerOperator(flavour, st, id, subs, v, i + 1)
    ELSE PushOncePerOperator(flavour,
            [st EXCEPT !.queues = WriterPush(@, subs[i], v),
                       !.schedule = IF flavour = "babyflow2"
                                    THEN Insert(@, subs[i][1]) ELSE @,
                       !.dirty[id + 1] = IF flavour = "mod" THEN TRUE ELSE @,
                       !.owed = @ \cup {subs[i][1]}],
            id, subs, v, i + 1)

\* a push that, finding no subscriber, schedules the sender to try again
RECURSIVE SendCtxPushRetry(_, _, _, _, _, _)
SendCtxPushRetry(flavour, st, id, subs, v, i) ==
    IF subs = <<>> THEN [st EXCEPT !.schedule = Insert(@, id)]
    ELSE IF i > Len(subs)
    THEN [st EXCEPT !.dirty[id + 1] = IF flavour = "mod" THEN TRUE ELSE @]
    ELSE SendCtxPushRetry(flavour,
            [st EXCEPT !.queues = WriterPush(@, subs[i], v),
                       !.schedule = IF flavour = "babyflow2"
                                    THEN Insert(@, subs[i][1]) ELSE @,
                       !.owed = @ \cup {subs[i][1]}],
            id, subs, v, i + 1)

\* a push that leaves the dirty bit of babyflow/mod.rs alone
RECURSIVE SendCtxPushNeverDirty(_, _, _, _, _, _)
SendCtxPushNeverDirty(flavour, st, id, subs, v, i) ==
    IF i > Len(subs) THEN st
    ELSE SendCtxPushNeverDirty(flavour,
            [st EXCEPT !.queues = WriterPush(@, subs[i], v),
                       !.schedule = IF flavour = "babyflow2"
                                    THEN Insert(@, subs[i][1]) ELSE @,
                       !.owed = @ \cup {subs[i][1]}],
            id, subs, v, i + 1)

\* SendCtx::push of operator `id`, from subscriber i on. babyflow2.rs inserts
\* the subscriber into the schedule and pushes to its writer; babyflow/mod.rs
\* pushes to each writer and sets the operator's dirty bit
RECURSIVE SendCtxPush(_, _, _, _, _, _)
SendCtxPush(flavour, st, id, subs, v, i) ==
    IF i > Len(subs)
    THEN [st EXCEPT !.dirty[id + 1] = IF flavour = "mod" THEN TRUE ELSE @]
    ELSE SendCtxPush(flavour,
            [st EXCEPT !.queues = WriterPush(@, subs[i], v),
                       !.schedule = IF flavour = "babyflow2"
                                    THEN Insert(@, subs[i][1]) ELSE @,
                       !.owed = @ \cup {subs[i][1]}],
            id, subs, v, i + 1)

\* the pushes of one turn of a body, in order
RECURSIVE PushEach(_, _, _, _, _, _)
PushEach(flavour, st, id, subs, vals, k) ==
    IF k > Len(vals) THEN st
    ELSE PushEach(flavour, SendCtxPush(flavour, st, id, subs, vals[k], 1),
                  id, subs, vals, k + 1)

\* Dataflow::run after the invocation of `id` returned. babyflow/mod.rs: if
\* the dirty bit is set it is cleared and every adjacency is inserted into
\* the schedule; babyflow2.rs: nothing
RECURSIVE InsertAll(_, _, _)
InsertAll(sched, subs, i) ==
    IF i > Len(subs) THEN sched
    ELSE InsertAll(Insert(sched, subs[i][1]), subs, i + 1)

AfterInvokeNever(flavour, sched, dirty, subs) == sched

AfterInvoke(flavour, sched, dirty, subs) ==
    IF flavour = "mod" /\ dirty THEN InsertAll(sched, subs, 1) ELSE sched

\* ------------------------------------------------------------------ graphs a caller builds

\* the rows a source pushes when it is invoked
RowsPool == UNION {[1..n -> Values] : n \in 0..MaxRows}

\* one source, no edges
LoneSource(r) == GAddOp(GNew, GSource(r))

\* test_df: a source wired to a sink
SourceSink(r) ==
    GAddEdge(GAddOp(GAddOp(GNew, GSource(r)), GSink), 0, 1, 1)

\* a source wired twice to the input of the same sink
DoubleEdge(r) == GAddEdge(SourceSink(r), 0, 1, 1)

\* a source wired to a Query::merge whose output is wired to nothing
Dangling(r) == GAddEdge(GAddOp(GAddOp(GNew, GSource(r)), GMerge), 0, 1, 1)

\* Query::merge whose output is wired back to its own input
SelfLoop(r) ==
    GAddEdge(GAddEdge(GAddOp(GAddOp(GNew, GSource(r)), GMerge), 0, 1, 1), 1, 1, 1)

\* a merge whose output comes back to its input through a map or a filter
LoopThrough(r, body) ==
    GAddEdge(GAddEdge(GAddEdge(
        GAddOp(GAddOp(GAddOp(GNew, GSource(r)), GMerge), body),
        0, 1, 1), 1, 2, 1), 2, 1, 1)

\* a merge whose output comes back through a distinct, which also feeds a sink
LoopDistinct(r) ==
    GAddEdge(GAddOp(LoopThrough(r, GDistinct), GSink), 2, 3, 1)

\* a source feeding a lazy operator directly and through a map; the lazy
\* operator feeds a sink
LazyChain(r) ==
    GAddEdge(GAddEdge(GAddEdge(GAddEdge(
        GAddOp(GAddOp(GAddOp(GAddOp(GNew, GSource(r)), GLazy), GSink), GMap),
        0, 1, 1), 1, 2, 1), 0, 3, 1), 3, 1, 1)

\* test_df_binary, test_query: two sources wired to the two inputs of a binary
\* operator, which feeds a sink
TwoSources(r1, r2, body) ==
    GAddEdge(GAddEdge(GAddEdge(
        GAddOp(GAddOp(GAddOp(GAddOp(GNew, GSource(r1)), GSource(r2)), body), GSink),
        0, 2, 1), 1, 2, 2), 2, 3, 1)

\* one source wired to both inputs of a join, which feeds a sink
SelfJoin(r) ==
    GAddEdge(GAddEdge(GAddEdge(
        GAddOp(GAddOp(GAddOp(GNew, GSource(r)), GJoin), GSink),
        0, 1, 1), 0, 1, 2), 1, 2, 1)

ClosureGraphs ==
    {LoneSource(r) : r \in RowsPool}
    \cup {SourceSink(r) : r \in RowsPool}
    \cup {Dangling(r) : r \in RowsPool}
    \cup {DoubleEdge(r) : r \in RowsPool}
    \cup {SelfLoop(r) : r \in RowsPool}
    \cup {LoopThrough(r, b) : r \in RowsPool, b \in {GMap, GFilter}}
    \cup {LoopDistinct(r) : r \in RowsPool}
    \cup {LazyChain(r) : r \in RowsPool}
    \cup {TwoSources(r1, r2, b) : r1 \in RowsPool, r2 \in RowsPool, b \in {GUnion, GJoin}}
    \cup {SelfJoin(r) : r \in RowsPool}

\* graphs of the Ctx-based Dataflow (babyflow.rs): a lone source; a source
\* wired once or twice to a Distinct that feeds the outbox; a source wired to
\* both ports of a Join; a source feeding a lazy operator directly and
\* through a Distinct
CtxLone(r) == AddOp(DataflowNew, SourceOp(r))

CtxChain(r) ==
    AddEdge(AddEdge(AddOp(AddOp(DataflowNew, SourceOp(r)), DistinctOp({})),
                    0, 1, 0), 1, UsizeMax, 0)

CtxDouble(r) == AddEdge(CtxChain(r), 0, 1, 0)

\* a Distinct that feeds the outbox, created before the source wired to it
CtxReceiverFirst(r) ==
    AddEdge(AddEdge(AddOp(AddOp(DataflowNew, DistinctOp({})), SourceOp(r)),
                    1, 0, 0), 0, UsizeMax, 0)

\* a source wired to a Distinct whose output is wired to nothing
CtxDangling(r) ==
    AddEdge(AddOp(AddOp(DataflowNew, SourceOp(r)), DistinctOp({})), 0, 1, 0)

CtxSelfJoin(r) ==
    AddEdge(AddEdge(AddEdge(
        AddOp(AddOp(DataflowNew, SourceOp(r)), JoinOp(<<0>>, EmptyMap, <<0>>, EmptyMap)),
        0, 1, 0), 0, 1, 1), 1, UsizeMax, 0)

CtxLazy(r) ==
    AddEdge(AddEdge(AddEdge(AddEdge(
        AddOp(AddOp(AddOp(DataflowNew, SourceOp(r)), LazyOp), DistinctOp({})),
        0, 1, 0), 0, 2, 0), 2, 1, 0), 1, UsizeMax, 0)

\* two sources wired to port 0 and port 1 of a Join that feeds the outbox
CtxTwoSources(r1, r2) ==
    AddEdge(AddEdge(AddEdge(
        AddOp(AddOp(AddOp(DataflowNew, SourceOp(r1)), SourceOp(r2)),
              JoinOp(<<0>>, EmptyMap, <<0>>, EmptyMap)),
        0, 2, 0), 1, 2, 1), 2, UsizeMax, 0)

CtxGraphs ==
    {CtxLone(r) : r \in RowsPool}
    \cup {CtxTwoSources(r1, r2) : r1 \in RowsPool, r2 \in RowsPool}
    \cup {CtxChain(r) : r \in RowsPool}
    \cup {CtxDangling(r) : r \in RowsPool}
    \cup {CtxReceiverFirst(r) : r \in RowsPool}
    \cup {CtxDouble(r) : r \in RowsPool}
    \cup {CtxSelfJoin(r) : r \in RowsPool}
    \cup {CtxLazy(r) : r \in RowsPool}

\* ------------------------------------------------------------------ Dataflow::run of the closure-based Dataflow

NoHist == [delivered |-> <<>>, received |-> <<>>]

\* the caller has built a graph of the Ctx-based Dataflow and calls run
CtxInit ==
    /\ g_flavour = "ctx"
    /\ \E d \in CtxGraphs :
          /\ operators = d.operators
          /\ outputs = d.outputs
          /\ inboxes = d.inboxes
          /\ schedule = d.schedule
          /\ outbox = d.outbox
          /\ sent_log = [i \in DOMAIN d.operators |-> <<>>]
          /\ waited = [i \in DOMAIN d.operators |-> 0]
          /\ invoked = [i \in DOMAIN d.operators |-> 0]
    /\ rel_ops = EmptyMap
    /\ g_ops = <<>>
    /\ g_subs = <<>>
    /\ g_queues = <<>>
    /\ g_dirty = <<>>
    /\ g_count = <<>>
    /\ g_hist = <<>>
    /\ pc = "running"

\* the caller has built a graph of a closure-based Dataflow and calls run
ClosureInit ==
    /\ g_flavour \in {"babyflow2", "mod"}
    /\ NoDataflow
    /\ pc = "g_run"
    /\ \E g \in ClosureGraphs :
          /\ g_ops = g.ops
          /\ g_subs = g.subs
          /\ schedule = g.schedule
          /\ g_queues = [i \in DOMAIN g.ops |-> <<<<>>, <<>>>>]
          /\ g_dirty = [i \in DOMAIN g.ops |-> FALSE]
          /\ g_count = [i \in DOMAIN g.ops |-> 0]
          /\ g_hist = [i \in DOMAIN g.ops |-> NoHist]

GraphInit ==
    /\ CtxInit \/ ClosureInit
    /\ g_running = None
    /\ g_phase = 0
    /\ g_owed = {}
    /\ g_rx_fresh = FALSE
    /\ g_last = <<>>
    /\ g_twin = <<>>
    /\ NoHarness
    /\ NoProgram
    /\ NoQuery
    /\ tick = FALSE

otherVars == <<schedVars, progVars, dfVars, queryVars, tick, g_twin>>

\* run pops an operator and calls its closure
GPop ==
    /\ pc = "g_run"
    /\ g_running = None
    /\ Pop(schedule).ret # None
    /\ schedule' = Pop(schedule).sched
    /\ g_running' = Pop(schedule).ret
    /\ g_phase' = 1
    /\ g_count' = [g_count EXCEPT ![Pop(schedule).ret + 1] = Min(@ + 1, MaxCount)]
    /\ g_owed' = g_owed \ {Pop(schedule).ret}
    /\ UNCHANGED <<g_flavour, g_ops, g_subs, g_queues, g_dirty, g_rx_fresh, g_last,
                   g_hist, pc, otherVars>>

\* run finds the schedule empty and returns
GRunReturn ==
    /\ pc = "g_run"
    /\ g_running = None
    /\ Pop(schedule).ret = None
    /\ pc' = "done"
    /\ UNCHANGED <<schedule, graphVars, otherVars>>

\* the entries appended to the queues of operator i between qs and qs2
Arrived(qs, qs2, i) ==
    SubSeq(qs2[i][1], Len(qs[i][1]) + 1, Len(qs2[i][1]))
        \o SubSeq(qs2[i][2], Len(qs[i][2]) + 1, Len(qs2[i][2]))

\* history of the lazy operators: the values delivered to them and the values
\* they received
Hist(h, ops, qs, qs2, id, got) ==
    [i \in DOMAIN h |->
        IF ops[i].kind # "lazy" THEN h[i]
        ELSE [delivered |-> h[i].delivered
                              \o [k \in DOMAIN Arrived(qs, qs2, i) |-> Arrived(qs, qs2, i)[k].val],
              received |-> IF i = id + 1 THEN h[i].received \o got ELSE h[i].received]]

\* the state a turn of a body works on
BodyState(queues) ==
    [queues |-> queues, schedule |-> schedule, dirty |-> g_dirty, owed |-> g_owed]

\* the closure of a source: it pushes its rows
GSourceBody ==
    /\ pc = "g_run"
    /\ g_running # None
    /\ g_ops[g_running + 1].kind = "source"
    /\ g_phase = 1
    /\ LET id == g_running
           rows == g_ops[id + 1].rows
           st == PushEach(g_flavour, BodyState(g_queues), id, g_subs[id + 1], rows, 1)
       IN /\ g_queues' = st.queues
          /\ schedule' = st.schedule
          /\ g_dirty' = st.dirty
          /\ g_owed' = st.owed
          /\ g_last' = [op |-> id, port |-> 0, pushed |-> rows, before |-> g_queues]
          /\ g_hist' = Hist(g_hist, g_ops, g_queues, st.queues, id, <<>>)
    /\ g_phase' = 2
    /\ UNCHANGED <<g_flavour, g_ops, g_subs, g_running, g_count, g_rx_fresh, pc, otherVars>>

\* one turn of the `while let Some(v) = recv.pull()` loop of the running
\* closure: it pulls the head of its current input and pushes what its body
\* makes of it
GPull ==
    /\ pc = "g_run"
    /\ g_running # None
    /\ g_ops[g_running + 1].kind # "source"
    /\ g_phase \in {1, 2}
    /\ g_ops[g_running + 1].kind = "lazy" => g_phase = 1
    /\ g_queues[g_running + 1][g_phase] # <<>>
    /\ LET id == g_running
           p == Pull(g_queues[id + 1][g_phase])
           r == BodyTurn(g_ops[id + 1], p.val.val, g_phase)
           pulled == [g_queues EXCEPT ![id + 1][g_phase] = p.rest]
           st == PushEach(g_flavour, BodyState(pulled), id, g_subs[id + 1], r.pushed, 1)
       IN /\ g_ops' = [g_ops EXCEPT ![id + 1] = r.op]
          /\ g_queues' = st.queues
          /\ schedule' = st.schedule
          /\ g_dirty' = st.dirty
          /\ g_owed' = st.owed
          /\ g_rx_fresh' = (g_rx_fresh \/ p.val.fresh)
          /\ g_last' = [op |-> id, port |-> g_phase, pushed |-> r.pushed, before |-> pulled]
          /\ g_hist' = Hist(g_hist, g_ops, pulled, st.queues, id, <<p.val.val>>)
          /\ g_phase' = IF g_ops[id + 1].kind = "lazy" THEN 2 ELSE g_phase
    /\ UNCHANGED <<g_flavour, g_subs, g_running, g_count, pc, otherVars>>

\* the first loop of a binary closure finds its input empty; the second begins
GAdvance ==
    /\ pc = "g_run"
    /\ g_running # None
    /\ Binary(g_ops[g_running + 1])
    /\ g_phase = 1
    /\ g_queues[g_running + 1][1] = <<>>
    /\ g_phase' = 2
    /\ UNCHANGED <<schedule, g_flavour, g_ops, g_subs, g_queues, g_dirty, g_running,
                   g_count, g_owed, g_rx_fresh, g_last, g_hist, pc, otherVars>>

\* the running closure is about to return
BodyDone ==
    LET o == g_ops[g_running + 1]
    IN CASE o.kind = "source" -> g_phase = 2
         [] o.kind = "lazy" -> g_phase = 2 \/ g_queues[g_running + 1][1] = <<>>
         [] Binary(o) -> g_phase = 2 /\ g_queues[g_running + 1][2] = <<>>
         [] OTHER -> g_queues[g_running + 1][1] = <<>>

\* the closure returns to run, which goes back to the head of its loop
GBodyReturn ==
    /\ pc = "g_run"
    /\ g_running # None
    /\ BodyDone
    /\ schedule' = AfterInvoke(g_flavour, schedule, g_dirty[g_running + 1],
                               g_subs[g_running + 1])
    /\ g_dirty' = [g_dirty EXCEPT ![g_running + 1] = FALSE]
    /\ g_queues' = [i \in DOMAIN g_queues |->
                      [p \in {1, 2} |->
                          [k \in DOMAIN g_queues[i][p] |->
                              [g_queues[i][p][k] EXCEPT
                                  !.fresh = FALSE,
                                  !.seen = IF i = g_running + 1 THEN TRUE ELSE @]]]]
    /\ g_running' = None
    /\ g_phase' = 0
    /\ UNCHANGED <<g_flavour, g_ops, g_subs, g_count, g_owed, g_rx_fresh, g_last,
                   g_hist, pc, otherVars>>

GraphNext ==
    \/ GPop
    \/ GSourceBody
    \/ GPull
    \/ GAdvance
    \/ GBodyReturn
    \/ GRunReturn
    \/ RunStep
    \/ RunReturn

SpecGraph == GraphInit /\ [][GraphNext]_vars

\* ------------------------------------------------------------------ Schedule harness

SchedInit ==
    /\ schedule = NewSchedule
    /\ NoHarness
    /\ NoProgram
    /\ NoDataflow
    /\ NoQuery
    /\ NoGraph
    /\ pc = "harness"
    /\ tick = FALSE

\* a caller invokes schedule.insert(t)
CallInsert(t) ==
    /\ calls < MaxCalls
    /\ schedule' = Insert(schedule, t)
    /\ calls' = calls + 1
    /\ lastCall' = [op |-> "insert", arg |-> t, ret |-> None, before |-> schedule]
    /\ inserted' = IF t \in Range(schedule.order) THEN inserted ELSE Append(inserted, t)
    /\ UNCHANGED <<popped, progVars, dfVars, pc, tick, queryVars, graphVars>>

\* a caller invokes schedule.pop()
CallPop ==
    /\ calls < MaxCalls
    /\ schedule' = Pop(schedule).sched
    /\ calls' = calls + 1
    /\ lastCall' = [op |-> "pop", arg |-> None, ret |-> Pop(schedule).ret,
                    before |-> schedule]
    /\ popped' = IF Pop(schedule).ret = None THEN popped
                 ELSE Append(popped, Pop(schedule).ret)
    /\ UNCHANGED <<inserted, progVars, dfVars, pc, tick, queryVars, graphVars>>

SchedNext ==
    \/ \E t \in 0..MaxId : CallInsert(t)
    \/ CallPop

SpecSched == SchedInit /\ [][SchedNext]_vars

\* ------------------------------------------------------------------ properties

\* C1: with the clauses of main added in any order, run returns each of the rows
\* [1], [2], [3], [4], [5] exactly once and no other row.
C1_ReachableRows ==
    pc = "done" =>
        /\ Len(outbox) = 5
        /\ Range(outbox) = {<<1>>, <<2>>, <<3>>, <<4>>, <<5>>}

\* C1 witness: run has returned for an order in which the rule was added
\* first and the seed fact last.
C1_Witness ==
    /\ pc = "done"
    /\ clauses[1] = ReachRule
    /\ clauses[Len(clauses)] = ReachSeed
    /\ <<5>> \in Range(outbox)

\* C2: when run returns, the set held by the Distinct operator of each relation
\* is the relation's extension in the least model of the program's clauses.
C2_LeastModel ==
    pc = "done" =>
        \A name \in HeadNames(clauses) :
            operators[DistinctOf(name) + 1].set = Extension(clauses, name)

\* C2 witness: run has returned for a program with a three-predicate rule that
\* derived a row no fact states.
C2_Witness ==
    /\ pc = "done"
    /\ \E i \in DOMAIN clauses :
          /\ Len(clauses[i].body) = 3
          /\ \E row \in operators[DistinctOf(clauses[i].head.name) + 1].set :
                \A k \in DOMAIN clauses :
                    clauses[k].body = <<>> =>
                        clauses[k] # Fact(clauses[i].head.name, row)

\* C3: render(R) wires the outbox to the Distinct operator of R: the rows run
\* returns are exactly the rows that operator emitted.
C3_OutboxFedByDistinct ==
    pc = "done" =>
        \A row \in Range(outbox) \cup Range(sent_log[DistinctOf(out_name) + 1]) :
            Count(outbox, row) = Count(sent_log[DistinctOf(out_name) + 1], row)

C8_NoDuplicatePending ==
    /\ NoDup(schedule.order)
    /\ (lastCall.op = "insert" /\ lastCall.arg \in Range(lastCall.before.order))
          => schedule = lastCall.before

\* C8 witness: insert(x) was just called while x was pending among other ids.
C8_Witness ==
    /\ lastCall.op = "insert"
    /\ lastCall.arg \in Range(lastCall.before.order)
    /\ Len(lastCall.before.order) >= 2
    /\ popped # <<>>

\* C9: pop returns ids in the order of the inserts that found them not pending:
\* the ids popped so far are a prefix of the ids so inserted, whatever repeated
\* inserts and pops are interleaved.
C9_FifoOrder ==
    /\ Len(popped) <= Len(inserted)
    /\ \A i \in DOMAIN popped : popped[i] = inserted[i]

\* C9 witness: a then b (a # b) were inserted while not pending, a repeated
\* insert was coalesced in between, and both have been popped.
C9_Witness ==
    /\ Len(popped) >= 2
    /\ popped[1] # popped[2]
    /\ calls > Len(popped) + Len(inserted)

\* C10: members is exactly the set of ids in order; pop on a non-empty schedule
\* returns the head and removes it from order and members; an insert of an id
\* that is not pending (also one popped before) appends it at the tail; pop on
\* an empty schedule returns none and changes nothing.
C10_MembersMatchOrder ==
    /\ schedule.members = Range(schedule.order)
    /\ (lastCall.op = "pop" /\ lastCall.before.order # <<>>) =>
          /\ lastCall.ret = Head(lastCall.before.order)
          /\ schedule.order = Tail(lastCall.before.order)
          /\ schedule.members = lastCall.before.members \ {lastCall.ret}
    /\ (lastCall.op = "pop" /\ lastCall.before.order = <<>>) =>
          /\ lastCall.ret = None
          /\ schedule = lastCall.before
    /\ (lastCall.op = "insert" /\ lastCall.arg \notin Range(lastCall.before.order)) =>
          schedule.order = Append(lastCall.before.order, lastCall.arg)

\* C10 witness: an id that was popped earlier has just been inserted again and
\* sits at the tail behind another pending id.
C10_Witness ==
    /\ lastCall.op = "insert"
    /\ lastCall.arg \in Range(popped)
    /\ Len(schedule.order) >= 2
    /\ schedule.order[Len(schedule.order)] = lastCall.arg
    /\ lastCall.before.order # schedule.order

\* ------------------------------------------------------------------ join, distinct, union

Quiescent == pc = "query" /\ schedule.order = <<>>

\* the output of a join for a left value l and a right value r of the same key:
\* (k, v, v2) for Operator::join, the left row followed by the right row for
\* a DataOp::Join
Triple(l, r) == IF q_kind = "join" THEN <<l[1], l[2], r[2]>> ELSE l \o r

Matches ==
    {Triple(l, r) : <<l, r>> \in {x \in Range(a_sent) \X Range(b_sent) : x[1][1] = x[2][1]}}

\* the set a distinct holds
Stored == IF q_kind = "distinct" THEN q_state.tab ELSE q_state.set

\* C5: when the graph is quiescent, a join that received a set of left values
\* and a set of right values, in any interleaving over any number of
\* invocations, has emitted each (k, v, v2) with (k, v) received on the left
\* and (k, v2) on the right exactly once, and nothing else.
C5_JoinEmitsEachMatchOnce ==
    (Quiescent /\ q_kind \in {"join", "DataOp::Join"} /\ NoDup(a_sent) /\ NoDup(b_sent))
        => /\ Range(emitted) = Matches
           /\ \A t \in Matches : Count(emitted, t) = 1

C5_Witness ==
    /\ Quiescent
    /\ q_kind = "join"
    /\ invocations >= 3
    /\ a_sent = <<(<<1, 1>>), (<<1, 2>>)>>
    /\ b_sent = <<(<<1, 2>>), (<<1, 1>>)>>
    /\ Len(emitted) = 4
    /\ emitted[1] = <<1, 1, 2>>

\* C6: a distinct emits no value twice, the set it holds is at every moment
\* the set of the values it has emitted, and once it has drained its input
\* every value it received, however many times, has been emitted.
C6_DistinctEmitsOnce ==
    q_kind \in {"distinct", "DataOp::Distinct"}
        => /\ NoDup(emitted)
           /\ Stored = Range(emitted)
           /\ Quiescent => Range(emitted) = Range(a_sent) \cup Range(b_sent)

C6_Witness ==
    /\ Quiescent
    /\ q_kind = "distinct"
    /\ invocations >= 3
    /\ Count(a_sent, <<1, 1>>) + Count(b_sent, <<1, 1>>) >= 3
    /\ emitted = <<(<<2, 1>>), (<<1, 1>>)>>

\* C7: when the graph is quiescent the values a union has emitted are the
\* multiset sum of the values received on its two inputs.
C7_UnionIsMultisetSum ==
    (Quiescent /\ q_kind = "union")
        => \A v \in Values : Count(emitted, v) = Count(a_sent, v) + Count(b_sent, v)

C7_Witness ==
    /\ Quiescent
    /\ q_kind = "union"
    /\ invocations >= 2
    /\ Count(a_sent, <<1, 1>>) >= 1
    /\ Count(b_sent, <<1, 1>>) >= 2
    /\ Count(emitted, <<1, 1>>) >= 3

\* ------------------------------------------------------------------ scheduling fairness

\* C11: in a graph of N operators the pending sequence never holds more than N
\* ids, and a pending operator has waited through at most N-1 invocations of
\* other operators; with the ids ahead of it in the sequence still to be
\* invoked, that is at most N-1 in all when it is popped.
C11_NoStarvation ==
    pc \in {"running", "done"} =>
        /\ Len(schedule.order) <= Len(operators)
        /\ \A k \in DOMAIN schedule.order :
              waited[schedule.order[k] + 1] + (k - 1) <= Len(operators) - 1

\* C11 witness: an operator that became pending again during the run is at
\* the head of the sequence after waiting through three invocations of others.
C11_Witness ==
    /\ pc = "running"
    /\ schedule.order # <<>>
    /\ waited[Head(schedule.order) + 1] >= 3
    /\ invoked[Head(schedule.order) + 1] >= 1

\* ------------------------------------------------------------------ lone source

\* the graph is a single source without edges that has sent nothing
LoneSilentSource ==
    IF g_flavour = "ctx"
    THEN Len(operators) = 1 /\ outputs[1] = <<>> /\ operators[1].kind = "Source"
         /\ operators[1].rows = <<>> /\ sent_log[1] = <<>>
    ELSE Len(g_ops) = 1 /\ g_subs[1] = <<>> /\ g_ops[1] = GSource(<<>>)

\* how often run has invoked operator id
Invocations(id) == IF g_flavour = "ctx" THEN invoked[id + 1] ELSE g_count[id + 1]

\* C12: for a graph of one source that sends nothing and no edges, run invokes
\* the source once: after that invocation the schedule is empty, and when run
\* returns the source was invoked exactly once and nothing was output.
C12_LoneSourceOnePop ==
    (pc \in {"g_run", "running", "done"} /\ LoneSilentSource) =>
        /\ Invocations(0) <= 1
        /\ (Invocations(0) = 1 /\ g_running = None) => schedule.order = <<>>
        /\ pc = "done" =>
              /\ Invocations(0) = 1
              /\ outbox = <<>>
              /\ g_flavour # "ctx" => g_queues[1] = <<<<>>, <<>>>>

\* C12 witness: run has returned for the lone silent source of babyflow2.rs.
C12_Witness ==
    /\ pc = "done"
    /\ g_flavour = "babyflow2"
    /\ LoneSilentSource
    /\ g_count = <<1>>

\* ------------------------------------------------------------------ monotonicity

IsPrefix(a, b) == Len(a) <= Len(b) /\ SubSeq(b, 1, Len(a)) = a

TableGrows(t, u) ==
    \A key \in DOMAIN t : key \in DOMAIN u /\ IsPrefix(t[key], u[key])

\* operator o has become operator n without losing anything it held
OperatorGrows(o, n) ==
    CASE o.kind = "Distinct" -> n.kind = "Distinct" /\ o.set \subseteq n.set
      [] o.kind = "Join" ->
            /\ n.kind = "Join"
            /\ TableGrows(o.left, n.left)
            /\ TableGrows(o.right, n.right)
      [] OTHER -> TRUE

\* C13: along every run the set of each Distinct, both tables of each Join and
\* the outbox only grow from one step to the next, and every row a Distinct
\* has emitted is in its set.
C13_NeverRetracted ==
    /\ [](\A i \in DOMAIN operators :
             operators[i].kind = "Distinct" => Range(sent_log[i]) \subseteq operators[i].set)
    /\ [][/\ \A i \in DOMAIN operators :
               i \in DOMAIN operators' /\ OperatorGrows(operators[i], operators'[i])
          /\ IsPrefix(outbox, outbox')]_vars

\* C13 witness: in the middle of a run a Distinct holds two rows, a Join holds
\* rows in both tables and a row has reached the outbox.
C13_Witness ==
    /\ pc = "running"
    /\ schedule.order # <<>>
    /\ outbox # <<>>
    /\ \E i \in DOMAIN operators :
          operators[i].kind = "Distinct" /\ Cardinality(operators[i].set) >= 2
    /\ \E i \in DOMAIN operators :
          /\ operators[i].kind = "Join"
          /\ operators[i].left # EmptyMap
          /\ operators[i].right # EmptyMap

\* ------------------------------------------------------------------ structural mistakes

\* the caller's program, all clauses added, refers to a relation without clauses
UndeclaredBody ==
    \E i \in DOMAIN clauses : \E j \in DOMAIN clauses[i].body :
        clauses[i].body[j].name \notin HeadNames(clauses)

UndeclaredOutput == out_name \notin HeadNames(clauses)

Invoked == \E i \in DOMAIN invoked : invoked[i] > 0

\* C14: when the program refers to a relation without clauses, in a body or
\* as the name passed to render, render aborts: it returns no graph and no
\* operator is invoked.
C14_UndeclaredRelationAborts ==
    (todo = <<>> /\ (UndeclaredBody \/ UndeclaredOutput)) =>
        /\ pc \notin {"running", "done"}
        /\ ~Invoked

\* a body predicate uses a relation with another number of arguments than
\* the heads of the relation's clauses have
ShapeMismatch ==
    \E i \in DOMAIN clauses : \E j \in DOMAIN clauses[i].body :
        \E k \in DOMAIN clauses :
            /\ clauses[k].head.name = clauses[i].body[j].name
            /\ Len(clauses[k].head.args) # Len(clauses[i].body[j].args)

\* C15: a shape mismatch is rejected while render builds the graph: render
\* returns no graph for such a program and run is never reached.
C15_ShapeMismatchRejected ==
    (todo = <<>> /\ ShapeMismatch) =>
        /\ pc \notin {"running", "done"}
        /\ ~Invoked

\* ------------------------------------------------------------------ cycles without distinct

IsClosure == g_flavour \in {"babyflow2", "mod"}

OpIds == {i - 1 : i \in DOMAIN g_ops}

Successors(id) == {g_subs[id + 1][k][1] : k \in DOMAIN g_subs[id + 1]}

PassThrough(id) == g_ops[id + 1].kind \in {"merge", "map", "filter"}

\* the operators reached from the set S along edges between merge, map and
\* filter operators, in at most n steps
RECURSIVE ReachedFrom(_, _)
ReachedFrom(S, n) ==
    IF n = 0 THEN S
    ELSE ReachedFrom(S \cup {t \in UNION {Successors(i) : i \in S} : PassThrough(t)},
                     n - 1)

\* the operators on a cycle through m made of merge, map and filter operators
CycleOf(m) ==
    {c \in ReachedFrom({t \in Successors(m) : PassThrough(t)}, Len(g_ops)) :
        m \in ReachedFrom({t \in Successors(c) : PassThrough(t)}, Len(g_ops))}

\* a merge sits on such a cycle and a source is wired to it with a row that
\* every filter of the cycle passes
FeedsCycle ==
    /\ IsClosure
    /\ \E m \in OpIds : \E src \in OpIds :
          /\ g_ops[m + 1].kind = "merge"
          /\ m \in CycleOf(m)
          /\ g_ops[src + 1].kind = "source"
          /\ m \in Successors(src)
          /\ \E k \in DOMAIN g_ops[src + 1].rows :
                \A c \in CycleOf(m) :
                    g_ops[c + 1].kind = "filter" =>
                        /\ FilterFn(g_ops[src + 1].rows[k])
                        /\ (\E d \in CycleOf(m) : g_ops[d + 1].kind = "map")
                              => FilterFn(MapFn(g_ops[src + 1].rows[k]))

\* C16: when a source sends a value into a merge that sits on a cycle without
\* a distinct, run never returns, and whenever run is back at the head of its
\* loop the schedule is not empty.
C16_CycleNeverQuiesces ==
    FeedsCycle =>
        /\ pc = "g_run"
        /\ g_running = None => schedule.order # <<>>

\* C16 witness: in babyflow/mod.rs a value has gone round a cycle through a
\* map: merge and map have each been invoked three times or more and the
\* merge is being invoked again.
C16_Witness ==
    /\ FeedsCycle
    /\ g_flavour = "mod"
    /\ Len(g_ops) = 3
    /\ g_ops[3].kind = "map"
    /\ g_count[2] = MaxCount
    /\ g_count[3] = MaxCount
    /\ g_running = 1
    /\ g_queues[2][1] # <<>>

\* ------------------------------------------------------------------ values left in an input queue

QueueVals(q) == [k \in DOMAIN q |-> q[k].val]

Without(q, k) == SubSeq(q, 1, k - 1) \o SubSeq(q, k + 1, Len(q))

\* closure-based Dataflow: what a lazy operator has received, followed by what
\* waits in its queue, is what was delivered to it, in order; and it is
\* pending only if it was never invoked or a value has arrived that its last
\* invocation did not leave behind
LazyClosureKeeps ==
    IsClosure =>
        \A i \in DOMAIN g_ops :
            g_ops[i].kind = "lazy" =>
                /\ g_hist[i].received \o QueueVals(g_queues[i][1]) = g_hist[i].delivered
                /\ (i - 1) \in schedule.members =>
                      \/ g_count[i] = 0
                      \/ \E k \in DOMAIN g_queues[i][1] : ~g_queues[i][1][k].seen

\* Ctx-based Dataflow: an invocation of a lazy operator takes one message out
\* of its inbox and sends it on, leaves the other messages in the inbox in
\* their order, and does not leave the operator pending
LazyCtxKeeps ==
    (/\ g_flavour = "ctx"
     /\ pc = "running"
     /\ schedule.order # <<>>
     /\ operators[Head(schedule.order) + 1].kind = "Lazy"
     /\ inboxes[Head(schedule.order) + 1] # <<>>) =>
        LET i == Head(schedule.order) + 1
        IN /\ \E k \in DOMAIN inboxes[i] :
                 /\ inboxes'[i] = Without(inboxes[i], k)
                 /\ sent_log'[i] = Append(sent_log[i], inboxes[i][k][1])
           /\ (i - 1) \notin schedule'.members

\* C17: values an operator body leaves in its input queue stay there, none
\* dropped or duplicated; the operator is not made pending on their account;
\* they are received by a later invocation, which a new value sent to the
\* operator brings about.
C17_LeftoverDeferred ==
    /\ []LazyClosureKeeps
    /\ [][LazyCtxKeeps]_vars

\* C17 witness: run of babyflow/mod.rs has returned; the lazy operator was
\* invoked twice, the second time because the map sent it values, and
\* received a value each time; two values are still in its queue.
C17_Witness ==
    /\ pc = "done"
    /\ g_flavour = "mod"
    /\ \E i \in DOMAIN g_ops :
          /\ g_ops[i].kind = "lazy"
          /\ g_count[i] = 2
          /\ Len(g_hist[i].received) = 2
          /\ Len(g_queues[i][1]) = 2
          /\ \A k \in DOMAIN g_queues[i][1] : g_queues[i][1][k].seen

\* ------------------------------------------------------------------ fan-out of a push

\* the number of edges of `subs` that lead to input `port` of operator `t`
EdgesTo(subs, t, port) == Cardinality({j \in DOMAIN subs : subs[j] = <<t, port>>})

\* n copies of each of `vals`, in the order of `vals`
Delivered(vals, n) == [k \in 1..(Len(vals) * n) |-> vals[((k - 1) \div n) + 1]]

\* the edges of `targets` that lead to operator `t`, in order
RECURSIVE EdgesOnto(_, _, _)
EdgesOnto(targets, t, i) ==
    IF i > Len(targets) THEN <<>>
    ELSE (IF targets[i][1] = t THEN <<targets[i]>> ELSE <<>>)
             \o EdgesOnto(targets, t, i + 1)

\* the messages the Ctx-based Dataflow owes an operator for the values `sent`:
\* for each value, one per edge, tagged with the port of the edge
RECURSIVE CtxDelivered(_, _, _)
CtxDelivered(sent, edges, k) ==
    IF k > Len(sent) THEN <<>>
    ELSE [j \in DOMAIN edges |-> <<sent[k], edges[j][2]>>]
             \o CtxDelivered(sent, edges, k + 1)

\* closure-based Dataflow: after the pushes of a turn of a body every input
\* queue is what it was followed by one copy of each pushed value per edge
\* leading to it; and when run is at the head of its loop every operator that
\* was pushed to and not popped since is pending
ClosureFanOut ==
    IsClosure =>
        /\ g_last # <<>> =>
              \A t \in DOMAIN g_queues : \A port \in {1, 2} :
                  QueueVals(g_queues[t][port])
                      = QueueVals(g_last.before[t][port])
                          \o Delivered(g_last.pushed,
                                       EdgesTo(g_subs[g_last.op + 1], t - 1, port))
        /\ g_running = None => g_owed \subseteq schedule.members

\* Ctx-based Dataflow: a turn of run appends to the inbox of every other
\* operator one message per sent value and edge leading to it, and leaves
\* every operator it sent to pending
CtxFanOut ==
    (/\ pc = "running"
     /\ pc' = "running"
     /\ schedule.order # <<>>) =>
        LET op == Head(schedule.order)
            sent == SubSeq(sent_log'[op + 1], Len(sent_log[op + 1]) + 1,
                           Len(sent_log'[op + 1]))
        IN \A t \in DOMAIN inboxes :
              LET edges == EdgesOnto(outputs[op + 1], t - 1, 1)
              IN /\ t # op + 1 =>
                       inboxes'[t] = inboxes[t] \o CtxDelivered(sent, edges, 1)
                 /\ (sent # <<>> /\ edges # <<>>) => (t - 1) \in schedule'.members

\* C18: a push from an output with at least one subscriber edge appends exactly
\* one copy of the value per edge to the tail of the queue the edge leads to,
\* several edges to one operator included, and every operator pushed to is
\* pending by the time run pops the next operator.
C18_PushFansOut ==
    /\ []ClosureFanOut
    /\ [][CtxFanOut]_vars

\* C18 witness: a closure has pushed a value on an output with two edges to the
\* same input of one operator, whose queue holds both copies, and has returned.
C18_Witness ==
    /\ IsClosure
    /\ g_running = None
    /\ g_last # <<>>
    /\ g_last.pushed # <<>>
    /\ \E t \in DOMAIN g_queues :
          /\ EdgesTo(g_subs[g_last.op + 1], t - 1, 1) = 2
          /\ Len(g_queues[t][1]) = 2 * Len(g_last.pushed)
          /\ (t - 1) \in schedule.members

\* ------------------------------------------------------------------ one arrival at a join

IsJoin == q_kind \in {"join", "DataOp::Join"}

\* the tables of the join: key -> the values (Operator::join) or rows
\* (DataOp::Join) received on that side so far
LeftTable == IF q_kind = "join" THEN q_state.left_tab ELSE q_state.left
RightTable == IF q_kind = "join" THEN q_state.right_tab ELSE q_state.right

\* the key of an arrival and what the table records of it
KeyOf(x) == IF q_kind = "join" THEN x[1] ELSE JoinKey(<<0>>, x)
Payload(x) == IF q_kind = "join" THEN x[2] ELSE x

\* the output for a left and a right table entry of key k
Emit(k, l, r) == IF q_kind = "join" THEN <<k, l, r>> ELSE l \o r

\* an invocation of a join that finds exactly one arrival in its queues emits
\* one output per entry the other side's table holds under the arrival's key,
\* in table order, appends the arrival to its own side's table under that key,
\* and leaves the other table alone
JoinArrival ==
    (/\ IsJoin
     /\ invocations' = invocations + 1
     /\ Len(recv1) + Len(recv2) = 1) =>
        LET fromLeft == IF q_kind = "join" THEN recv1 # <<>> ELSE recv1[1][2] = 0
            x == IF q_kind = "join"
                 THEN (IF recv1 # <<>> THEN recv1[1] ELSE recv2[1])
                 ELSE recv1[1][1]
            k == KeyOf(x)
            v == Payload(x)
            m == MapGet(IF fromLeft THEN RightTable ELSE LeftTable, k)
        IN /\ emitted' = emitted \o [i \in DOMAIN m |->
                                        IF fromLeft THEN Emit(k, v, m[i])
                                        ELSE Emit(k, m[i], v)]
           /\ IF fromLeft
              THEN LeftTable' = MapPush(LeftTable, k, v) /\ RightTable' = RightTable
              ELSE RightTable' = MapPush(RightTable, k, v) /\ LeftTable' = LeftTable
           /\ recv1' = <<>>
           /\ recv2' = <<>>

\* the outputs so far are as many as the pairs of a left and a right entry
\* under the same key: two entries of one side never make an output
JoinPairs ==
    IsJoin =>
        Len(emitted)
            = Cardinality({<<k, i, j>> \in (DOMAIN LeftTable \cap DOMAIN RightTable)
                                            \X (1..Len(a_sent)) \X (1..Len(b_sent)) :
                               i <= Len(LeftTable[k]) /\ j <= Len(RightTable[k])})

\* C19: a value arriving at a join on one side yields exactly one output per
\* entry then in the other side's table under its key and is recorded in its
\* own side's table; values of the same side never pair with each other.
C19_JoinPerArrival ==
    /\ [][JoinArrival]_vars
    /\ []JoinPairs

\* C19 witness: an Operator::join was invoked once per arrival; it holds two
\* equal left entries and one right entry under key 1 and has emitted one
\* output per pair of a left and the right entry.
C19_Witness ==
    /\ q_kind = "join"
    /\ invocations = 4
    /\ a_sent = <<(<<1, 1>>), (<<1, 1>>)>>
    /\ b_sent = <<(<<1, 2>>)>>
    /\ q_state.left_tab[1] = <<1, 1>>
    /\ q_state.right_tab[1] = <<2>>
    /\ emitted = <<(<<1, 1, 2>>), (<<1, 1, 2>>)>>

\* ------------------------------------------------------------------ values sent during an invocation

\* C20: no operator receives, during an invocation, a value that was sent
\* during that same invocation, the sender included when its output is wired
\* back to its own input: what an invocation sends is delivered after its body
\* has returned.
C20_SentAfterReturn == ~g_rx_fresh

\* ------------------------------------------------------------------ provenance of arrivals at a binary operator

\* two sources wired to the two inputs of a join (closure-based Dataflow)
ClosureTwoSourceJoin ==
    /\ IsClosure
    /\ Len(g_ops) = 4
    /\ g_ops[1].kind = "source"
    /\ g_ops[2].kind = "source"
    /\ g_ops[3].kind = "join"

\* two sources wired to port 0 and port 1 of a DataOp::Join (Ctx-based Dataflow)
CtxTwoSourceJoin ==
    /\ g_flavour = "ctx"
    /\ Len(operators) = 3
    /\ operators[1].kind = "Source"
    /\ operators[2].kind = "Source"
    /\ operators[3].kind = "Join"

\* the left table of the join holds only what the first source sent and the
\* right table only what the second source sent, each value as many times as
\* it was sent; when run has returned they hold all of it
Provenance ==
    /\ ClosureTwoSourceJoin =>
          \A x \in Values :
              LET l == Count(MapGet(g_ops[3].left_tab, x[1]), x[2])
                  r == Count(MapGet(g_ops[3].right_tab, x[1]), x[2])
              IN /\ l <= Count(g_ops[1].rows, x)
                 /\ r <= Count(g_ops[2].rows, x)
                 /\ pc = "done" => /\ l = Count(g_ops[1].rows, x)
                                   /\ r = Count(g_ops[2].rows, x)
    /\ CtxTwoSourceJoin =>
          \A x \in Values :
              LET l == Count(MapGet(operators[3].left, <<x[1]>>), x)
                  r == Count(MapGet(operators[3].right, <<x[1]>>), x)
              IN /\ l <= Count(sent_log[1], x)
                 /\ r <= Count(sent_log[2], x)
                 /\ pc = "done" => /\ l = Count(sent_log[1], x)
                                   /\ r = Count(sent_log[2], x)

\* C21: a value sent over an edge wired to one input port of a binary operator
\* is received by the operator as a value of that port and never as a value
\* of the other port.
C21_PortProvenance == Provenance

\* C21 witness: run has returned on a join fed by two sources that sent
\* different values; the left table holds the first source's value and the
\* right table the second source's.
C21_Witness ==
    /\ pc = "done"
    /\ \/ /\ ClosureTwoSourceJoin
          /\ g_ops[1].rows = <<(<<1, 1>>)>>
          /\ g_ops[2].rows = <<(<<1, 2>>), (<<2, 1>>)>>
          /\ g_ops[3].left_tab[1] = <<1>>
          /\ g_ops[3].right_tab[1] = <<2>>
          /\ g_ops[4].got = <<(<<1, 1, 2>>)>>
       \/ /\ CtxTwoSourceJoin
          /\ sent_log[1] = <<(<<1, 1>>)>>
          /\ sent_log[2] = <<(<<1, 2>>), (<<2, 1>>)>>
          /\ outbox = <<(<<1, 1, 1, 2>>)>>

\* ------------------------------------------------------------------ a push without subscribers

\* closure-based Dataflow: while an operator without subscribers is running,
\* and when it returns, the schedule does not change, the queues of the other
\* operators do not change, and its own queues only lose what it pulls
ClosureNoSubscribers ==
    (/\ IsClosure
     /\ g_running # None
     /\ g_subs[g_running + 1] = <<>>) =>
        /\ schedule' = schedule
        /\ \A t \in DOMAIN g_queues : \A port \in {1, 2} :
              IF t = g_running + 1
              THEN \E n \in 0..Len(g_queues[t][port]) :
                      QueueVals(g_queues'[t][port])
                          = SubSeq(QueueVals(g_queues[t][port]), n + 1,
                                   Len(g_queues[t][port]))
              ELSE QueueVals(g_queues'[t][port]) = QueueVals(g_queues[t][port])

\* Ctx-based Dataflow: a turn of run for an operator without outputs leaves
\* the schedule as pop left it, and the outbox and the inboxes of the other
\* operators as they were
CtxNoSubscribers ==
    (/\ g_flavour = "ctx"
     /\ pc = "running"
     /\ pc' = "running"
     /\ schedule.order # <<>>
     /\ outputs[Head(schedule.order) + 1] = <<>>) =>
        /\ schedule' = Pop(schedule).sched
        /\ outbox' = outbox
        /\ \A t \in DOMAIN inboxes :
              t # Head(schedule.order) + 1 => inboxes'[t] = inboxes[t]

\* C22: a push on an output without subscribers changes neither the schedule
\* nor any input queue: no operator becomes pending and the value is stored
\* nowhere.
C22_PushWithoutSubscribers ==
    /\ [][ClosureNoSubscribers]_vars
    /\ [][CtxNoSubscribers]_vars

\* C22 witness: a merge without subscribers has pushed the two values it
\* pulled, run has returned, and every queue is empty.
C22_Witness ==
    /\ pc = "done"
    /\ IsClosure
    /\ Len(g_ops) = 2
    /\ g_ops[2].kind = "merge"
    /\ g_subs[2] = <<>>
    /\ Len(g_ops[1].rows) = 2
    /\ g_last # <<>>
    /\ g_last.op = 1
    /\ g_last.pushed # <<>>
    /\ \A t \in DOMAIN g_queues : g_queues[t] = <<<<>>, <<>>>>

\* ------------------------------------------------------------------ operators without inbound edges

CtxNoInbound(t) ==
    \A o \in DOMAIN outputs : \A j \in DOMAIN outputs[o] : outputs[o][j][1] # t - 1

ClosureNoInbound(t) ==
    \A o \in DOMAIN g_subs : \A j \in DOMAIN g_subs[o] : g_subs[o][j][1] # t - 1

\* the ids 0..n-1 in order
CreationOrder(n) == [i \in 1..n |-> i - 1]

\* when run is called the schedule holds every operator in creation order; an
\* operator without inbound edges has been invoked at most once, and once
\* when run has returned; a DataOp::Source has sent nothing before its
\* invocation and holds no rows after it
InvokedOnce ==
    /\ g_flavour = "ctx" =>
          /\ (pc = "running" /\ \A t \in DOMAIN invoked : invoked[t] = 0) =>
                schedule.order = CreationOrder(Len(operators))
          /\ \A t \in DOMAIN operators :
                CtxNoInbound(t) =>
                    /\ invoked[t] <= 1
                    /\ pc = "done" => invoked[t] = 1
                    /\ operators[t].kind = "Source" =>
                          /\ invoked[t] = 0 => sent_log[t] = <<>>
                          /\ invoked[t] = 1 => operators[t].rows = <<>>
    /\ IsClosure =>
          /\ (pc = "g_run" /\ g_running = None /\ \A t \in DOMAIN g_count : g_count[t] = 0) =>
                schedule.order = CreationOrder(Len(g_ops))
          /\ \A t \in DOMAIN g_ops :
                ClosureNoInbound(t) =>
                    /\ g_count[t] <= 1
                    /\ pc = "done" => g_count[t] = 1

\* the invocation of a DataOp::Source sends the rows it holds, in order
SourceEmits ==
    (/\ g_flavour = "ctx"
     /\ pc = "running"
     /\ schedule.order # <<>>
     /\ operators[Head(schedule.order) + 1].kind = "Source") =>
        sent_log'[Head(schedule.order) + 1]
            = sent_log[Head(schedule.order) + 1]
                \o operators[Head(schedule.order) + 1].rows

\* C23: every operator is inserted into the schedule when it is created, in
\* creation order; an operator without inbound edges is invoked exactly once
\* during run, and a DataOp::Source emits each of its initial rows exactly
\* once over the whole run.
C23_SourcesRunOnce ==
    /\ []InvokedOnce
    /\ [][SourceEmits]_vars

\* C23 witness: run of the Ctx-based Dataflow has returned; two sources were
\* invoked once each, the first sent its two equal rows and the second sent
\* rows too.
C23_Witness ==
    /\ pc = "done"
    /\ CtxTwoSourceJoin
    /\ invoked[1] = 1
    /\ invoked[2] = 1
    /\ sent_log[1] = <<(<<1, 1>>), (<<1, 1>>)>>
    /\ sent_log[2] # <<>>

\* ------------------------------------------------------------------ the graph render builds

\* render returned a graph
Rendered == g_flavour # "ctx" /\ pc \in {"running", "done"} /\ rel_ops # EmptyMap

\* render has just returned a graph and run has not yet invoked an operator
JustRendered == Rendered /\ pc = "running" /\ \A t \in DOMAIN invoked : invoked[t] = 0

\* the edges into operator t (1-based): <<o, j>> for edge j of operator o
Inbound(t) ==
    {e \in UNION {{<<o, j>> : j \in DOMAIN outputs[o]} : o \in DOMAIN outputs} :
        outputs[e[1]][e[2]][1] = t - 1}

\* the body predicates of the program: <<n, c, i>> for predicate i of the body
\* of clause c of relation n
BodyPreds ==
    UNION {UNION {{<<n, c, i>> : i \in DOMAIN relations[n][c][2]} :
                      c \in DOMAIN relations[n]} : n \in DOMAIN relations}

BodyPred(b) == relations[b[1]][b[2]][2][b[3]]

\* the PredExprs render makes of the constants of a predicate
SelectExprs(pred) ==
    [k \in DOMAIN pred.constants |->
        EqConstant(pred.constants[k][1], pred.constants[k][2])]

\* the Distinct of every relation was created before every other operator;
\* every Select has one inbound edge, on port 0, from the Distinct of a
\* relation; and the Selects fed by the Distinct of a relation are, with
\* their expressions, as many as the body predicates naming that relation
SelectsSubscribed ==
    JustRendered =>
        /\ DOMAIN rel_ops = DOMAIN relations
        /\ \A n \in DOMAIN rel_ops :
              /\ rel_ops[n] < Cardinality(DOMAIN relations)
              /\ operators[rel_ops[n] + 1].kind = "Distinct"
              /\ \A m \in DOMAIN rel_ops : rel_ops[m] = rel_ops[n] => m = n
        /\ \A t \in DOMAIN operators :
              operators[t].kind = "Select" =>
                  /\ Cardinality(Inbound(t)) = 1
                  /\ \A e \in Inbound(t) :
                        /\ outputs[e[1]][e[2]][2] = 0
                        /\ \E n \in DOMAIN rel_ops : rel_ops[n] = e[1] - 1
        /\ \A n \in DOMAIN rel_ops : \A b \in BodyPreds :
              BodyPred(b).name = n =>
                  Cardinality({t \in DOMAIN operators :
                                  /\ operators[t].kind = "Select"
                                  /\ operators[t].preds = SelectExprs(BodyPred(b))
                                  /\ \E e \in Inbound(t) : e[1] - 1 = rel_ops[n]})
                      = Cardinality({c \in BodyPreds :
                                        /\ BodyPred(c).name = n
                                        /\ SelectExprs(BodyPred(c)) = SelectExprs(BodyPred(b))})

\* C24: render creates the Distinct of every relation before it compiles any
\* clause, so a body may name its own relation or one compiled later, and
\* the Select built for a body predicate is subscribed to exactly the
\* Distinct of the relation the predicate names.
C24_SelectFedByDistinct == SelectsSubscribed

\* C24 witness: render returned a graph for a program in which a clause names
\* its own relation in its body and a clause names a relation compiled later.
C24_Witness ==
    /\ JustRendered
    /\ \E b \in BodyPreds : BodyPred(b).name = b[1]
    /\ \E b \in BodyPreds : BodyPred(b).name > b[1]

\* ------------------------------------------------------------------ the operators of a compiled clause

\* the clauses of the program: <<n, c>> for clause c of relation n
ClauseIds ==
    UNION {{<<n, c>> : c \in DOMAIN relations[n]} : n \in DOMAIN relations}

HeadOf(cl) == relations[cl[1]][cl[2]][1]
BodyOf(cl) == relations[cl[1]][cl[2]][2]

ArityOf(pred) == Len(pred.constants) + Len(pred.variables)

\* the sum of the arities of the first j predicates of a body
RECURSIVE Width(_, _)
Width(body, j) == IF j = 0 THEN 0 ELSE Width(body, j - 1) + ArityOf(body[j])

\* render creates, after one Distinct per relation, for each clause in the
\* order of compilation: a Select per body predicate, a Source, a Join per body
\* predicate, a Project. The id of the first operator of clause cl:
Base(cl) ==
    Cardinality(DOMAIN relations)
      + Cardinality(UNION {{<<d, x>> : x \in 1..(2 * Len(BodyOf(d)) + 2)} :
                              d \in {d \in ClauseIds :
                                        \/ d[1] < cl[1]
                                        \/ d[1] = cl[1] /\ d[2] < cl[2]}})

\* the 1-based indexes of the Join built for body predicate m and of the Project
JoinIdx(cl, m) == Base(cl) + Len(BodyOf(cl)) + 1 + m
ProjectIdx(cl) == Base(cl) + 2 * Len(BodyOf(cl)) + 2

\* the occurrences of variables in a body: <<j, k>> for entry k of the
\* variables of predicate j; its variable, its position, its column
Occurrences(body) ==
    UNION {{<<j, k>> : k \in DOMAIN body[j].variables} : j \in DOMAIN body}

VarAt(body, o) == body[o[1]].variables[o[2]][2]
PosAt(body, o) == body[o[1]].variables[o[2]][1]
ColumnAt(body, o) == Width(body, o[1] - 1) + PosAt(body, o)

Earlier(o1, o2) == o1[1] < o2[1] \/ (o1[1] = o2[1] /\ o1[2] < o2[2])

\* the first occurrence of the variable that occurs at o
FirstOf(body, o) ==
    CHOOSE f \in Occurrences(body) :
        /\ VarAt(body, f) = VarAt(body, o)
        /\ \A g \in Occurrences(body) :
              VarAt(body, g) = VarAt(body, o) => (g = f \/ Earlier(f, g))

\* the key pairs of a Join
KeyPairs(op) ==
    {<<op.left_key[i], op.right_key[i]>> : i \in DOMAIN op.left_key}

\* the Join built for predicate m of a clause pairs, for each variable of the
\* predicate first seen in an earlier predicate, the column recorded at the
\* first occurrence with the position in this predicate, and pairs nothing
\* else with a column of the accumulated row
JoinKeysRecorded ==
    Rendered =>
        \A cl \in ClauseIds : \A m \in DOMAIN BodyOf(cl) :
            LET body == BodyOf(cl)
                join == operators[JoinIdx(cl, m)]
            IN /\ join.kind = "Join"
               /\ Len(join.left_key) = Len(join.right_key)
               /\ {kp \in KeyPairs(join) : kp[1] < Width(body, m - 1)}
                     = {<<ColumnAt(body, FirstOf(body, o)), PosAt(body, o)>> :
                           o \in {o \in Occurrences(body) :
                                     o[1] = m /\ FirstOf(body, o)[1] < m}}

\* every row waiting at the Project of a clause is as wide as the sum of the
\* arities of the body and holds equal values in the columns of the
\* occurrences of one variable
JoinedRows ==
    Rendered =>
        \A cl \in ClauseIds :
            LET body == BodyOf(cl)
            IN /\ operators[ProjectIdx(cl)].kind = "Project"
               /\ \A i \in DOMAIN inboxes[ProjectIdx(cl)] :
                     LET row == inboxes[ProjectIdx(cl)][i][1]
                     IN /\ Len(row) = Width(body, Len(body))
                        /\ \A o1 \in Occurrences(body) : \A o2 \in Occurrences(body) :
                              VarAt(body, o1) = VarAt(body, o2) =>
                                  row[ColumnAt(body, o1) + 1] = row[ColumnAt(body, o2) + 1]

\* C25: the first occurrence of a variable in a body records its column in
\* the joined row, the sum of the arities of the earlier predicates plus its
\* position; each occurrence in a later predicate adds (recorded column,
\* position) to the keys of that predicate's Join; so every row that reaches
\* the Project is as wide as the body's arities together and holds equal
\* values in all columns of one variable.
C25_JoinColumns == JoinKeysRecorded /\ JoinedRows

\* ------------------------------------------------------------------ the rows a Project emits

\* the head row of clause cl for the joined row `row`: the head's literal at a
\* constant position, at a variable position the value of the column recorded
\* for the variable
HeadRow(cl, row) ==
    LET head == HeadOf(cl)
        body == BodyOf(cl)
    IN [p \in 1..ArityOf(head) |->
          IF \E k \in DOMAIN head.constants : head.constants[k][1] = p - 1
          THEN head.constants[CHOOSE k \in DOMAIN head.constants :
                                  head.constants[k][1] = p - 1][2]
          ELSE LET k == CHOOSE k \in DOMAIN head.variables :
                            head.variables[k][1] = p - 1
                   o == CHOOSE o \in Occurrences(body) :
                            VarAt(body, o) = head.variables[k][2]
               IN row[ColumnAt(body, FirstOf(body, o)) + 1]]

\* every row a Project has sent has the head's arity and the head's literals;
\* the Project's only edge leads to port 0 of the Distinct of the head's
\* relation; the Project of a clause without body sends one row in all
ProjectRows ==
    Rendered =>
        \A cl \in ClauseIds :
            LET head == HeadOf(cl)
                proj == ProjectIdx(cl)
            IN /\ \A i \in DOMAIN sent_log[proj] :
                     /\ Len(sent_log[proj][i]) = ArityOf(head)
                     /\ \A k \in DOMAIN head.constants :
                           sent_log[proj][i][head.constants[k][1] + 1]
                               = head.constants[k][2]
               /\ outputs[proj] = << <<rel_ops[cl[1]], 0>> >>
               /\ BodyOf(cl) = <<>> =>
                     /\ Len(sent_log[proj]) <= 1
                     /\ pc = "done" => Len(sent_log[proj]) = 1

\* the invocation of a Project sends the head row of each row in its inbox,
\* in the order it receives them
ProjectStep ==
    (/\ Rendered
     /\ pc = "running"
     /\ pc' = "running"
     /\ schedule.order # <<>>) =>
        \A cl \in ClauseIds :
            ProjectIdx(cl) = Head(schedule.order) + 1 =>
                LET proj == ProjectIdx(cl)
                    n == Len(inboxes[proj])
                IN sent_log'[proj]
                     = sent_log[proj]
                         \o [k \in 1..n |-> HeadRow(cl, inboxes[proj][n - k + 1][1])]

\* C26: every row a clause's Project emits has the head's arity, the head's
\* literal at each constant position and the value of the bound variable's
\* recorded column at each variable position, and is delivered only to the
\* Distinct of the head's relation; a clause with an empty body emits exactly
\* one row, made of the head's constants.
C26_ProjectEmitsHead ==
    /\ []ProjectRows
    /\ [][ProjectStep]_vars

\* ------------------------------------------------------------------ the ports of a Join

\* every Join of a rendered graph has two inbound edges, one to port 0 and one
\* to port 1, and every message in its inbox is tagged 0 or 1
JoinPorts ==
    Rendered =>
        \A t \in DOMAIN operators :
            operators[t].kind = "Join" =>
                /\ Cardinality(Inbound(t)) = 2
                /\ {outputs[e[1]][e[2]][2] : e \in Inbound(t)} = {0, 1}
                /\ \A i \in DOMAIN inboxes[t] : inboxes[t][i][2] \in {0, 1}

\* C27: in every graph render builds, every message delivered to a Join is
\* tagged with port 0 or port 1, so the join's dispatch never reaches its
\* branch for another port.
C27_JoinPortsClosed == JoinPorts

\* C27 witness: a Join of a rendered graph holds in its inbox a message tagged
\* 0 and a message tagged 1.
C27_Witness ==
    /\ Rendered
    /\ \E t \in DOMAIN operators :
          /\ operators[t].kind = "Join"
          /\ \E i \in DOMAIN inboxes[t] : inboxes[t][i][2] = 0
          /\ \E i \in DOMAIN inboxes[t] : inboxes[t][i][2] = 1

\* ------------------------------------------------------------------ the interning table

\* the names a predicate uses, in the order intern_predicate interns them
PredNames(pred) ==
    <<pred.name>> \o [k \in DOMAIN SelectSeq(pred.args, LAMBDA a : a.kind = "Var") |->
                         SelectSeq(pred.args, LAMBDA a : a.kind = "Var")[k].name]

RECURSIVE BodyNames(_, _)
BodyNames(body, i) ==
    IF i > Len(body) THEN <<>> ELSE PredNames(body[i]) \o BodyNames(body, i + 1)

\* the names the clauses passed to Program::clause use, in order of use
RECURSIVE NamesUsed(_, _)
NamesUsed(cls, i) ==
    IF i > Len(cls) THEN <<>>
    ELSE PredNames(cls[i].head) \o BodyNames(cls[i].body, 1) \o NamesUsed(cls, i + 1)

\* a sequence without its repetitions, in order of first occurrence
RECURSIVE FirstUses(_, _)
FirstUses(names, seen) ==
    IF names = <<>> THEN <<>>
    ELSE IF Head(names) \in seen THEN FirstUses(Tail(names), seen)
    ELSE <<Head(names)>> \o FirstUses(Tail(names), seen \cup {Head(names)})

\* the names interned so far: those of the clauses, then the output name once
\* render was called
Interned ==
    FirstUses(NamesUsed(clauses, 1)
                \o (IF pc = "building" THEN <<>> ELSE <<out_name>>), {})

\* the interned form of a predicate under the table
InternedPred(pred) ==
    [name |-> idents[pred.name],
     constants |-> [k \in DOMAIN SelectSeq([i \in DOMAIN pred.args |-> <<i - 1, pred.args[i]>>],
                                           LAMBDA a : a[2].kind = "Datum") |->
                      LET a == SelectSeq([i \in DOMAIN pred.args |-> <<i - 1, pred.args[i]>>],
                                         LAMBDA a : a[2].kind = "Datum")[k]
                      IN <<a[1], a[2].val>>],
     variables |-> [k \in DOMAIN SelectSeq([i \in DOMAIN pred.args |-> <<i - 1, pred.args[i]>>],
                                           LAMBDA a : a[2].kind = "Var") |->
                      LET a == SelectSeq([i \in DOMAIN pred.args |-> <<i - 1, pred.args[i]>>],
                                         LAMBDA a : a[2].kind = "Var")[k]
                      IN <<a[1], idents[a[2].name]>>]]

\* the table maps the names interned so far, relation names and variable names
\* alike, to 0..n-1 in order of first use, and after each call of clause the
\* relations hold the clauses under the identifiers of that table
InternTable ==
    pc \in {"building", "running", "done", "panicked"} =>
        /\ DOMAIN idents = Range(Interned)
        /\ \A k \in DOMAIN Interned : idents[Interned[k]] = k - 1
        /\ \A a \in DOMAIN idents : \A b \in DOMAIN idents :
              idents[a] = idents[b] => a = b
        /\ DOMAIN relations = {idents[clauses[i].head.name] : i \in DOMAIN clauses}
        /\ \A i \in (IF pc = "building" THEN DOMAIN clauses ELSE {}) :
              LET same == SelectSeq(clauses,
                                    LAMBDA c : c.head.name = clauses[i].head.name)
                  rel == relations[idents[clauses[i].head.name]]
              IN /\ Len(rel) = Len(same)
                 /\ \A c \in DOMAIN same :
                       /\ rel[c][1] = InternedPred(same[c].head)
                       /\ rel[c][2] = [j \in DOMAIN same[c].body |->
                                          InternedPred(same[c].body[j])]

\* a call of clause or render leaves every name already in the table at its
\* identifier
InternKeeps ==
    \A a \in DOMAIN idents : a \in DOMAIN idents' /\ idents'[a] = idents[a]

\* C28: after any sequence of clause calls the interning table is injective
\* and dense, 0..n-1 for n distinct names in order of first use; interning a
\* known name returns its identifier and leaves the table unchanged; relation
\* names and variable names share the one table.
C28_InternDense ==
    /\ []InternTable
    /\ [][InternKeeps]_vars

\* C28 witness: three clauses were added; together they use four names, two
\* relation names and two variable names, some of them more than once.
C28_Witness ==
    /\ pc = "building"
    /\ Len(clauses) = 3
    /\ Cardinality(DOMAIN idents) = 4
    /\ Cardinality(DOMAIN relations) = 2
    /\ Len(NamesUsed(clauses, 1)) > 6

\* ------------------------------------------------------------------ non-empty queues are pending

\* every operator body of the graph drains its input on each invocation
AllDrain ==
    /\ \A t \in DOMAIN g_ops : g_ops[t].kind # "lazy"
    /\ \A t \in DOMAIN operators : operators[t].kind # "Lazy"

\* between two invocations an operator with a non-empty input queue is in the
\* schedule, and when run has returned every input queue is empty
PendingIfQueued ==
    AllDrain =>
        /\ (g_flavour = "ctx" /\ pc = "running") =>
              \A t \in DOMAIN inboxes :
                  inboxes[t] # <<>> => (t - 1) \in schedule.members
        /\ (IsClosure /\ pc = "g_run" /\ g_running = None) =>
              \A t \in DOMAIN g_queues :
                  g_queues[t] # <<<<>>, <<>>>> => (t - 1) \in schedule.members
        /\ pc = "done" =>
              /\ \A t \in DOMAIN inboxes : inboxes[t] = <<>>
              /\ \A t \in DOMAIN g_queues : g_queues[t] = <<<<>>, <<>>>>

\* C29: when every operator body drains its input on each invocation, an
\* operator whose input queue is non-empty between two invocations of run is
\* pending, and when run returns every input queue is empty.
C29_QueuedIsPending == PendingIfQueued

\* C29 witness: between two invocations an operator that was invoked before
\* holds a value in its queue again and is pending.
C29_Witness ==
    /\ AllDrain
    /\ \/ /\ IsClosure
          /\ pc = "g_run"
          /\ g_running = None
          /\ \E t \in DOMAIN g_queues :
                /\ g_count[t] >= 1
                /\ g_queues[t][1] # <<>>
                /\ (t - 1) \in schedule.members
       \/ /\ g_flavour = "ctx"
          /\ pc = "running"
          /\ \E t \in DOMAIN inboxes :
                /\ invoked[t] >= 1
                /\ inboxes[t] # <<>>
                /\ (t - 1) \in schedule.members

\* ------------------------------------------------------------------ the order of receipt

\* closure-based Dataflow: what an operator that pulls once per invocation has
\* received so far is the beginning of what was pushed to it, in push order
PullsOldestFirst ==
    IsClosure =>
        \A i \in DOMAIN g_ops :
            g_ops[i].kind = "lazy" =>
                IsPrefix(g_hist[i].received, g_hist[i].delivered)

\* Ctx-based Dataflow: an operator that calls recv once receives the message
\* that has been in its inbox longest, the one at the front
RecvOldestFirst ==
    (/\ g_flavour = "ctx"
     /\ pc = "running"
     /\ schedule.order # <<>>
     /\ operators[Head(schedule.order) + 1].kind = "Lazy"
     /\ inboxes[Head(schedule.order) + 1] # <<>>) =>
        LET i == Head(schedule.order) + 1
        IN /\ sent_log'[i] = Append(sent_log[i], Head(inboxes[i])[1])
           /\ inboxes'[i] = Tail(inboxes[i])

\* C30: an operator receives the values pending on an input oldest first, in
\* the order they were enqueued, with Ctx::recv of babyflow.rs as with
\* RecvCtx::pull of babyflow2.rs and babyflow/mod.rs.
C30_OldestFirst ==
    /\ []PullsOldestFirst
    /\ [][RecvOldestFirst]_vars

\* ------------------------------------------------------------------ column indexes

\* the predicates of the program, heads and bodies
AllPreds ==
    {clauses[i].head : i \in DOMAIN clauses}
        \cup UNION {{clauses[i].body[j] : j \in DOMAIN clauses[i].body} :
                        i \in DOMAIN clauses}

\* each relation is used with one arity throughout
OneArity ==
    \A a \in AllPreds : \A b \in AllPreds :
        a.name = b.name => Len(a.args) = Len(b.args)

\* every head variable occurs in the body of its clause
HeadVarsBound ==
    \A i \in DOMAIN clauses : \A k \in DOMAIN clauses[i].head.args :
        clauses[i].head.args[k].kind = "Var" =>
            \E j \in DOMAIN clauses[i].body : \E m \in DOMAIN clauses[i].body[j].args :
                /\ clauses[i].body[j].args[m].kind = "Var"
                /\ clauses[i].body[j].args[m].name = clauses[i].head.args[k].name

\* run aborted: an operator was invoked and the program panicked
RunAborted == pc = "panicked" /\ Invoked

\* the column indexes an operator applies to a row received on `port`
ColumnsUsed(op, port) ==
    CASE op.kind = "Select" -> {op.preds[k].col : k \in DOMAIN op.preds}
      [] op.kind = "Project" ->
            {op.cols[k].val : k \in {k \in DOMAIN op.cols : op.cols[k].kind = "Var"}}
      [] op.kind = "Join" ->
            IF port = 0 THEN Range(op.left_key) ELSE Range(op.right_key)
      [] OTHER -> {}

\* every column index an operator holds is within every row waiting in its
\* inbox for the port the index applies to, and run has not aborted
ColumnsInRange ==
    (/\ g_flavour # "ctx"
     /\ pc \in {"running", "done", "panicked"}
     /\ OneArity
     /\ HeadVarsBound) =>
        /\ ~RunAborted
        /\ \A t \in DOMAIN inboxes : \A i \in DOMAIN inboxes[t] :
              \A col \in ColumnsUsed(operators[t], inboxes[t][i][2]) :
                  col < Len(inboxes[t][i][1])

\* C31: in every graph render builds from a program that uses each relation
\* with one arity and binds every head variable in the body, every column
\* index of a Select, a Join or a Project is smaller than the width of every
\* row the operator receives on the port concerned, so no operator indexes a
\* row out of range during run, also when a body predicate holds the same
\* variable at two positions.
C31_ColumnsInRange == ColumnsInRange

\* ------------------------------------------------------------------ a join of a stream with itself

\* one source wired to both inputs of a join that feeds a sink (closure-based
\* Dataflow)
ClosureSelfJoin ==
    /\ IsClosure
    /\ Len(g_ops) = 3
    /\ g_ops[1].kind = "source"
    /\ g_ops[2].kind = "join"
    /\ g_subs[1] = <<(<<1, 1>>), (<<1, 2>>)>>

\* one source wired to port 0 and port 1 of a DataOp::Join that feeds the
\* outbox (Ctx-based Dataflow)
CtxSelfJoined ==
    /\ g_flavour = "ctx"
    /\ Len(operators) = 2
    /\ operators[1].kind = "Source"
    /\ operators[2].kind = "Join"
    /\ outputs[1] = <<(<<1, 0>>), (<<1, 1>>)>>

\* the ordered pairs of emissions of `rows` that have the same key and make
\* the output t
PairsMaking(rows, t, out(_, _)) ==
    {ij \in (DOMAIN rows) \X (DOMAIN rows) :
        /\ rows[ij[1]][1] = rows[ij[2]][1]
        /\ out(rows[ij[1]], rows[ij[2]]) = t}

\* the output of query.rs's join and of DataOp::Join for a left and a right row
JoinedTriple(l, r) == <<l[1], l[2], r[2]>>
JoinedRow(l, r) == l \o r

\* when run has returned, the outputs of the join are the outputs of the
\* ordered pairs of emissions with equal key, each as many times as there are
\* such pairs
SelfJoinPairs ==
    /\ (ClosureSelfJoin /\ pc = "done") =>
          LET rows == g_ops[1].rows
              got == g_ops[3].got
          IN \A t \in Range(got) \cup {JoinedTriple(rows[i], rows[j]) : i \in DOMAIN rows, j \in DOMAIN rows} :
                Count(got, t) = Cardinality(PairsMaking(rows, t, JoinedTriple))
    /\ (CtxSelfJoined /\ pc = "done") =>
          LET rows == sent_log[1]
          IN \A t \in Range(outbox) \cup {JoinedRow(rows[i], rows[j]) : i \in DOMAIN rows, j \in DOMAIN rows} :
                Count(outbox, t) = Cardinality(PairsMaking(rows, t, JoinedRow))

\* a join on its own, fed the same stream on both inputs, the arrivals of the
\* two sides and the invocations interleaved in any order: once both sides
\* have been sent the same values and the join has drained them, it has
\* emitted the outputs of the ordered pairs with equal key, each as many
\* times as there are such pairs
SharedStreamAnyOrder ==
    (IsJoin /\ a_sent = b_sent /\ recv1 = <<>> /\ recv2 = <<>>) =>
        \A t \in Range(emitted) \cup {Triple(a_sent[i], a_sent[j]) : i \in DOMAIN a_sent, j \in DOMAIN a_sent} :
            Count(emitted, t) = Cardinality(PairsMaking(a_sent, t, Triple))

\* C32: when one operator's output is wired to both inputs of a join, every
\* ordered pair (v, v') of the values it emits under the same key k, the pair
\* of an emission with itself included, has yielded the triple (k, v, v')
\* exactly once when run returns.
C32_SelfJoinPairs == SelfJoinPairs /\ SharedStreamAnyOrder

\* C32 witness: run has returned on a self-join whose source emitted (1, 1)
\* and (1, 2); the four ordered pairs, (1, 1, 1) and (1, 2, 2) among them,
\* were each output once.
C32_Witness ==
    /\ pc = "done"
    /\ \/ /\ ClosureSelfJoin
          /\ g_ops[1].rows = <<(<<1, 1>>), (<<1, 2>>)>>
          /\ Len(g_ops[3].got) = 4
          /\ Range(g_ops[3].got) = {<<1, 1, 1>>, <<1, 1, 2>>, <<1, 2, 1>>, <<1, 2, 2>>}
       \/ /\ CtxSelfJoined
          /\ sent_log[1] = <<(<<1, 1>>), (<<1, 2>>)>>
          /\ Len(outbox) = 4
          /\ Range(outbox) = {<<1, 1, 1, 1>>, <<1, 1, 1, 2>>, <<1, 2, 1, 1>>, <<1, 2, 1, 2>>}

\* ------------------------------------------------------------------ babyflow/mod.rs and babyflow2.rs side by side

\* the most invocations followed in a side-by-side run, and the most turns of
\* a body's loop followed before the invocation counts as not returning
MaxInvocations == 8
MaxTurns == 12

Flavours == {"mod", "babyflow2"}

Other(f) == IF f = "mod" THEN "babyflow2" ELSE "mod"

\* a Dataflow as built by the construction calls of graph g: every operator
\* scheduled, queues empty, dirty bits false. log: the operators invoked so
\* far; hung: an invocation did not return
Built(g) ==
    [ops |-> g.ops, subs |-> g.subs, schedule |-> g.schedule,
     queues |-> [i \in DOMAIN g.ops |-> <<<<>>, <<>>>>],
     dirty |-> [i \in DOMAIN g.ops |-> FALSE],
     owed |-> {}, log |-> <<>>, hung |-> FALSE]

\* the closure of operator `id` from the loop on input `phase` on
RECURSIVE TwinBody(_, _, _, _, _)
TwinBody(flavour, m, id, phase, fuel) ==
    LET o == m.ops[id + 1]
    IN IF o.kind = "source"
       THEN PushEach(flavour, m, id, m.subs[id + 1], o.rows, 1)
       ELSE IF m.queues[id + 1][phase] = <<>>
       THEN IF Binary(o) /\ phase = 1 THEN TwinBody(flavour, m, id, 2, fuel) ELSE m
       ELSE IF fuel = 0 THEN [m EXCEPT !.hung = TRUE]
       ELSE LET p == Pull(m.queues[id + 1][phase])
                r == BodyTurn(o, p.val.val, phase)
                pulled == [m EXCEPT !.queues[id + 1][phase] = p.rest,
                                    !.ops[id + 1] = r.op]
                st == PushEach(flavour, pulled, id, m.subs[id + 1], r.pushed, 1)
            IN IF o.kind = "lazy" THEN st
               ELSE TwinBody(flavour, st, id, phase, fuel - 1)

\* one iteration of the loop of Dataflow::run: pop, the call of the closure
\* and, in babyflow/mod.rs, the check of the dirty bit
TwinIteration(flavour, m) ==
    LET id == Pop(m.schedule).ret
        popped_m == [m EXCEPT !.schedule = Pop(m.schedule).sched,
                              !.log = Append(@, id)]
        r == TwinBody(flavour, popped_m, id, 1, MaxTurns)
    IN IF r.hung THEN r
       ELSE [r EXCEPT !.schedule = AfterInvoke(flavour, @, r.dirty[id + 1], r.subs[id + 1]),
                      !.dirty[id + 1] = FALSE]

TwinInit ==
    /\ g_flavour = "twin"
    /\ pc = "twin"
    /\ \E g \in ClosureGraphs : g_twin = [f \in Flavours |-> Built(g)]
    /\ schedule = NewSchedule
    /\ g_ops = <<>>
    /\ g_subs = <<>>
    /\ g_queues = <<>>
    /\ g_dirty = <<>>
    /\ g_running = None
    /\ g_phase = 0
    /\ g_count = <<>>
    /\ g_owed = {}
    /\ g_rx_fresh = FALSE
    /\ g_last = <<>>
    /\ g_hist = <<>>
    /\ NoHarness
    /\ NoProgram
    /\ NoDataflow
    /\ NoQuery
    /\ tick = FALSE

twinRest == <<schedule, schedVars, progVars, dfVars, queryVars, tick, pc, g_flavour,
              g_ops, g_subs, g_queues, g_dirty, g_running, g_phase, g_count, g_owed,
              g_rx_fresh, g_last, g_hist>>

Running(m) == ~m.hung /\ Pop(m.schedule).ret # None

\* run of one of the two Dataflows goes through one iteration of its loop; the
\* one that has made fewer iterations goes first
TwinInvoke(f) ==
    /\ pc = "twin"
    /\ Running(g_twin[f])
    /\ Len(g_twin[f].log) < MaxInvocations
    /\ Len(g_twin[f].log) <= Len(g_twin[Other(f)].log) \/ ~Running(g_twin[Other(f)])
    /\ g_twin' = [g_twin EXCEPT ![f] = TwinIteration(f, @)]
    /\ UNCHANGED twinRest

\* both runs have returned or are inside an invocation that does not return
TwinReturn ==
    /\ pc = "twin"
    /\ \A f \in Flavours : ~Running(g_twin[f])
    /\ pc' = "done"
    /\ UNCHANGED <<schedule, schedVars, progVars, dfVars, queryVars, tick, graphVars>>

TwinNext ==
    \/ \E f \in Flavours : TwinInvoke(f)
    \/ TwinReturn

SpecTwin == TwinInit /\ [][TwinNext]_vars

\* the values in the queues of a Dataflow
TwinVals(m) ==
    [i \in DOMAIN m.queues |->
        [p \in {1, 2} |-> [k \in DOMAIN m.queues[i][p] |-> m.queues[i][p][k].val]]]

\* the two Dataflows have invoked the same operators in the same order as far
\* as both have got; after the same number of invocations both are still to
\* invoke something or neither is, and their queues hold the same values
SameInvocations ==
    g_flavour = "twin" =>
        LET a == g_twin["mod"]
            b == g_twin["babyflow2"]
        IN /\ \A i \in 1..Min(Len(a.log), Len(b.log)) : a.log[i] = b.log[i]
           /\ Len(a.log) = Len(b.log) =>
                 /\ a.hung = b.hung
                 /\ ~a.hung => /\ TwinVals(a) = TwinVals(b)
                               /\ Running(a) = Running(b)

\* between invocations no dirty bit of babyflow/mod.rs is set
DirtyClear ==
    g_flavour = "twin" =>
        LET a == g_twin["mod"]
        IN ~a.hung => \A i \in DOMAIN a.dirty : ~a.dirty[i]

\* C33: for the same construction calls and operator bodies the Dataflow of
\* babyflow/mod.rs and the Dataflow of babyflow2.rs invoke the same operators
\* in the same order and hold the same queue contents after every invocation,
\* and every dirty bit of babyflow/mod.rs is false between invocations.
C33_SchedulersEquivalent == SameInvocations /\ DirtyClear

\* C33 witness: both runs have returned after the same six invocations, two
\* operators having been invoked a second time because an operator invoked
\* after them pushed to them, and an operator's queue still holds values.
C33_Witness ==
    /\ g_flavour = "twin"
    /\ pc = "done"
    /\ g_twin["mod"].log = g_twin["babyflow2"].log
    /\ g_twin["mod"].log = <<0, 1, 2, 3, 1, 2>>
    /\ \E i \in DOMAIN g_twin["mod"].queues : g_twin["mod"].queues[i][1] # <<>>
    /\ TwinVals(g_twin["mod"]) = TwinVals(g_twin["babyflow2"])


====
